---- MODULE Spec2Model ----
(***************************************************************************)
(* Job scheduler of the crawl platform (src/job-manager.ts): the           *)
(* scraping_jobs table, the JobManager operations on it and the workers    *)
(* that drain it with processQueue.  Every await of the source is a point  *)
(* where another worker may run, so each awaited store call is one step.   *)
(* The crawl engine: the rate limiter (src/route.ts), the crawl-policy     *)
(* parser (src/robots-txt-parser.ts) and the crawl executor with its audit *)
(* log (src/scraper.ts), each with specifications of its own.              *)
(* Ingestion and retrieval: runPipeline (src/Dockerfile), chunkText        *)
(* (src/embeddings.ts) and hybridSearch (src/semantic-search.ts).          *)
(***************************************************************************)
EXTENDS Integers, Sequences, FiniteSets, TLC

\* ---------------------------------------------------------------- bounds
MaxShared == 1      \* rows of the table when two workers share it
MaxJobs   == 1      \* rows of the table when one worker retries its jobs
MaxQueue  == 2      \* rows of the table when one worker drains a queue
MaxSubmit == 2      \* rows of the table when only submissions run
MaxRows   == 3      \* rows of the tables getNextJob is applied to
MaxTicks  == 3      \* clock steps the environment takes
MaxDrainTicks == 1  \* clock steps taken while a queue is drained
MaxBatch  == 2      \* largest maxJobs argument given to processQueue
MaxClock  == 9      \* clock steps while one caller uses the limiter
MaxOverlapClock == 4  \* clock steps while two callers use the limiter
MaxPatternLen == 3  \* characters of a pattern given to matchesPattern
MaxPathLen == 3     \* characters of a path given to matchesPattern
MaxPatterns == 2    \* patterns in each list of a rule set
MaxLines  == 3      \* lines of a policy text given to the parser
MaxAttempts == 2    \* scrape calls made on one scraper
MaxScrapeClock == 4  \* clock steps while the scraper is used
MaxAuditClock == 2  \* clock steps while the audit log is read
MaxChunks == 2      \* chunks the cleaned text of one run is split into
MaxTextLen == 5     \* characters of a text given to chunkText
MaxChunkSize == 4   \* largest maxChunkSize given to chunkText
MaxIterations == 7  \* loop iterations of chunkText that are followed
MaxDocs == 2        \* documents the vector search returns
MaxLimit == 2       \* largest limit given to hybridSearch
MaxDelaySteps == 3  \* largest configured delay, in clock steps
MaxContentLen == 4  \* characters of the cleaned content of a run
ContentChunkSize == 3   \* stands for the 1000 runPipeline passes to chunkText
ContentOverlap == 2     \* stands for the 200 runPipeline passes to chunkText

\* ------------------------------------------------------ program constants
MaxRetries  == 3        \* max_retries of every inserted row
BackoffBase == 60000    \* milliseconds, base of the exponential backoff
TickStep    == 4 * BackoffBase   \* the clock advances in steps of 4 min

Workers    == {"w1", "w2"}
Priorities == {0, 1}
Sources    == {"src-a", "src-b"}
Urls       == {"u1", "u2"}
NoDate     == -1        \* scheduledAt argument left undefined
NoJob      == [id |-> 0, retry_count |-> 0, max_retries |-> 0]  \* null
NoResult   == [status |-> "none", errors |-> << >>]
NoRequest  == [op |-> "none"]

VARIABLES
    jobs,       \* the scraping_jobs table: sequence of rows, id = index
    now,        \* the wall clock, in milliseconds
    pc,         \* per worker: position inside processQueue / executeJob
    job,        \* per worker: the row getNextJob returned (a snapshot),
                \* held until executeJob returns
    result,     \* per worker: the PipelineResult of its last runPipeline,
                \* held until the worker's next getNextJob or return
    maxJobs,    \* per worker: argument of the current processQueue call
    i,          \* per worker: loop counter of processQueue
    processed,  \* per worker: the counter processQueue returns
    calls,      \* per worker: executeJob invocations of the current call
    fails,      \* per job: executions that ended in the catch branch
    req         \* the last submission request (createJob / bulkCreateJobs)

\* The rate limiter of the crawl engine (src/route.ts, class RateLimiter).
VARIABLES
    domainRecords,  \* per domain: the RequestRecord list of the limiter
    call,           \* per caller: position and locals of its waitForSlot
    served          \* the waitForSlot calls that returned, in return order

limiterVars == << domainRecords, call, served >>

\* The crawl-policy parser (src/robots-txt-parser.ts) applied to one input.
VARIABLES
    rin,            \* the arguments given to the parser
    rout            \* what it returned for them

robotsVars == << rin, rout >>

\* The crawl executor (src/scraper.ts, class EthicalScraper).
VARIABLES
    logs,            \* the audit log, this.logs
    epoch,           \* flips at every clearLogs
    returned,        \* the array the last getLogs gave to its caller
    robotsTxtCache,  \* per hostname: the cached parser, if any
    attempt          \* the scrape call in progress or last finished

scraperVars == << logs, epoch, returned, robotsTxtCache, attempt >>

politeVars == << limiterVars, robotsVars, scraperVars >>

\* The ingestion pipeline (src/Dockerfile, class PipelineOrchestrator), the
\* chunker (src/embeddings.ts) and the search engine (src/semantic-search.ts).
VARIABLES
    run,             \* the runPipeline call: its locals and what it called
    chunking,        \* the chunkText call: its arguments and loop locals
    query            \* the hybridSearch call: its arguments and its result

ingestVars == << run, chunking, query >>

vars == << jobs, now, pc, job, result, maxJobs, i, processed, calls,
           fails, req, politeVars, ingestVars >>

workerVars == << pc, job, result, maxJobs, i, processed, calls >>

\* ------------------------------------------------------------- helpers
RECURSIVE Pow2(_)
Pow2(n) == IF n = 0 THEN 1 ELSE 2 * Pow2(n - 1)

RECURSIVE Join(_)
Join(errs) ==
    IF errs = << >> THEN ""
    ELSE IF Len(errs) = 1 THEN errs[1]
    ELSE errs[1] \o ", " \o Join(Tail(errs))

\* ------------------------------------------------- the ingestion pipeline
\* What the collaborators of one pipeline run do: the crawl policy's
\* decision, the fetch, the raw-content insert, the extraction stage and
\* the embedding stage.
PipelineEnvs ==
    [robots : BOOLEAN, fetch : BOOLEAN, store : BOOLEAN,
     extract : BOOLEAN, embed : BOOLEAN]

RobotsDisallowedMsg == "disallowed by robots.txt"
FetchErrorMsg       == "HTTP error"
StoreErrorMsg       == "Failed to store scraped content"
ProcessErrorMsg     == "Processing failed"
EmbedErrorMsg       == "Chunk failed"

Scrape(env) ==
    IF ~env.robots THEN [ok |-> FALSE, error |-> RobotsDisallowedMsg]
    ELSE IF ~env.fetch THEN [ok |-> FALSE, error |-> FetchErrorMsg]
    ELSE [ok |-> TRUE, error |-> ""]

RunPipeline(env) ==
    LET s == Scrape(env) IN
    IF ~s.ok THEN [status |-> "failed", errors |-> << s.error >>]
    ELSE IF ~env.store THEN [status |-> "failed", errors |-> << StoreErrorMsg >>]
    ELSE LET e3 == IF env.extract THEN << >> ELSE << ProcessErrorMsg >>
             e4 == IF env.embed THEN e3 ELSE Append(e3, EmbedErrorMsg)
         IN  [status |-> IF e4 = << >> THEN "success" ELSE "partial",
              errors |-> e4]

\* ------------------------------------------------------------ submission
ScheduledAtDefault(t) == t

NewRow(sourceId, url, priority, scheduledAt) ==
    [source_id |-> sourceId, url |-> url, priority |-> priority,
     scheduled_at |-> scheduledAt, status |-> "pending",
     retry_count |-> 0, max_retries |-> MaxRetries, error_message |-> ""]

CreateJob_IgnoresSchedule(js, t, sourceId, url, priority, scheduledAt) ==
    Append(js, NewRow(sourceId, url, priority, t))

CreateJob(js, t, sourceId, url, priority, scheduledAt) ==
    Append(js, NewRow(sourceId, url, priority,
                      IF scheduledAt # NoDate THEN scheduledAt ELSE t))

RECURSIVE BulkCreateJobs(_, _, _, _, _)
BulkCreateJobs(js, t, sourceId, urls, priority) ==
    IF urls = << >> THEN js
    ELSE BulkCreateJobs(
             Append(js, NewRow(sourceId, Head(urls), priority,
                               ScheduledAtDefault(t))),
             t, sourceId, Tail(urls), priority)

\* ------------------------------------------------------------- selection
Eligible(js, t) ==
    {k \in DOMAIN js : js[k].status = "pending" /\ js[k].scheduled_at <= t}

OrderedBefore_Ascending(a, b) ==
    \/ a.priority < b.priority
    \/ a.priority = b.priority /\ a.scheduled_at < b.scheduled_at

OrderedBefore(a, b) ==
    \/ a.priority > b.priority
    \/ a.priority = b.priority /\ a.scheduled_at < b.scheduled_at

Snapshot(js, k) ==
    [id |-> k, retry_count |-> js[k].retry_count,
     max_retries |-> js[k].max_retries]

\* The rows the query of getNextJob may return: the first row of the
\* ordered selection (any of the rows that tie for it), or null.
GetNextJob(js, t) ==
    LET el == Eligible(js, t) IN
    IF el = {} THEN {NoJob}
    ELSE {Snapshot(js, k) : k \in {m \in el :
              \A n \in el : ~OrderedBefore(js[n], js[m])}}

\* ---------------------------------------------------------------- updates
UpdateJobStatus(js, jobId, status, errorMessage) ==
    [js EXCEPT ![jobId] =
        [@ EXCEPT !.status = status,
                  !.error_message =
                      IF errorMessage # "" THEN errorMessage ELSE @]]

ShouldRetry_Inclusive(j) == j.retry_count <= j.max_retries

ShouldRetry(j) == j.retry_count < j.max_retries

BackoffDelay_Linear(retryCount) == BackoffBase * (retryCount + 1)

BackoffDelay(retryCount) == BackoffBase * Pow2(retryCount)

Reschedule(js, t, j, errorMessage) ==
    [js EXCEPT ![j.id] =
        [@ EXCEPT !.status = "pending",
                  !.retry_count = j.retry_count + 1,
                  !.error_message = errorMessage,
                  !.scheduled_at = t + BackoffDelay(j.retry_count)]]

PipelineSucceeded_Strict(r) == r.status = "success"

PipelineSucceeded(r) == r.status = "success" \/ r.status = "partial"

\* The table after executeJob has handled the pipeline's result r for the
\* snapshot j at time t.
ExecuteOutcome(js, t, j, r) ==
    IF PipelineSucceeded(r) THEN UpdateJobStatus(js, j.id, "completed", "")
    ELSE IF ShouldRetry(j) THEN Reschedule(js, t, j, Join(r.errors))
    ELSE UpdateJobStatus(js, j.id, "failed", Join(r.errors))

\* ------------------------------------------------------- the rate limiter
\* RateLimiter of src/route.ts.  waitForSlot has one await (the sleep), so
\* a call is two steps: the part before the sleep and the part after it.
Window    == 60000      \* milliseconds a request record counts for
ClockStep == 10000      \* the limiter's clock is read on a 10 s grid
RateLimitConfig ==
    [requestsPerMinute |-> 2, minDelay |-> 20000, maxDelay |-> 40000]

Callers == {"c1", "c2"}
Domains == {"d1", "d2"}
NoCall  == [pc |-> "idle", domain |-> "", now |-> 0,
            recentRecords |-> << >>, totalRequests |-> 0, sleep |-> 0]

Max(a, b) == IF a >= b THEN a ELSE b

\* records.filter((record) => now - record.timestamp < 60000)
RecentRecords(records, t) ==
    SelectSeq(records, LAMBDA r : t - r.timestamp < Window)

\* recentRecords.reduce((sum, record) => sum + record.count, 0)
RECURSIVE TotalRequests(_)
TotalRequests(records) ==
    IF records = << >> THEN 0
    ELSE records[1].count + TotalRequests(Tail(records))

\* The sleep of the branch taken when the budget is used up.
Min(a, b) == IF a <= b THEN a ELSE b

OverBudgetSleep_Shorter(recent, t, cfg) ==
    Min(Window - (t - recent[1].timestamp), cfg.minDelay)

OverBudgetSleep(recent, t, cfg) ==
    Max(Window - (t - recent[1].timestamp), cfg.minDelay)

\* minDelay + Math.random() * (maxDelay - minDelay), Math.random() in [0,1),
\* on the clock's grid.
RandomDelays(cfg) ==
    {cfg.minDelay} \cup
    {cfg.minDelay + k * ClockStep : k \in
        {n \in 0..(Window \div ClockStep) :
            cfg.minDelay + n * ClockStep < cfg.maxDelay}} \cup
    {cfg.minDelay - k * ClockStep : k \in
        {n \in 0..(Window \div ClockStep) :
            cfg.minDelay - n * ClockStep > cfg.maxDelay}}

SleepTimes(recent, t, cfg) ==
    IF TotalRequests(recent) >= cfg.requestsPerMinute
    THEN {OverBudgetSleep(recent, t, cfg)}
    ELSE RandomDelays(cfg)

\* getRequestCount(domain) read at time t
GetRequestCount(records, t) == TotalRequests(RecentRecords(records, t))

\* waitForSlot up to its await: the locals of the call and the sleep chosen
WaitForSlotBegin(records, t, cfg) ==
    LET recent == RecentRecords(records, t) IN
    {[pc |-> "sleeping", now |-> t, recentRecords |-> recent,
      totalRequests |-> TotalRequests(recent), sleep |-> s] :
        s \in SleepTimes(recent, t, cfg)}

\* waitForSlot after its await: the list the call stores for the domain
WaitForSlotEnd(c, t) ==
    Append(c.recentRecords, [timestamp |-> t, count |-> 1])

\* constructor(config: Partial<RateLimitConfig> = {}): `value || default`
\* takes the default for a field that is missing and for one that is 0.
NotConfigured == -1
DefaultConfig ==
    [requestsPerMinute |-> 30, minDelay |-> 1000, maxDelay |-> 3000]

Or(value, default) ==
    IF value = NotConfigured \/ value = 0 THEN default ELSE value

Constructor(config) ==
    [requestsPerMinute |-> Or(config.requestsPerMinute,
                              DefaultConfig.requestsPerMinute),
     minDelay |-> Or(config.minDelay, DefaultConfig.minDelay),
     maxDelay |-> Or(config.maxDelay, DefaultConfig.maxDelay)]

InitLimiter ==
    /\ domainRecords = [d \in Domains |-> << >>]
    /\ call = [c \in Callers |-> NoCall]
    /\ served = << >>


\* ------------------------------------------------- the crawl-policy parser
\* RobotsTxtParser of src/robots-txt-parser.ts.  Paths, patterns and regular
\* expression sources are sequences of one-character strings.
RegexSpecials ==
    {".", "+", "?", "^", "$", "{", "}", "(", ")", "|", "[", "]", "\\"}

\* pattern.replace(/[.+?^${}()|[\]\\]/g, "\\$&")
RECURSIVE EscapeSpecials(_)
EscapeSpecials(s) ==
    IF s = << >> THEN << >>
    ELSE (IF s[1] \in RegexSpecials THEN << "\\", s[1] >> ELSE << s[1] >>)
         \o EscapeSpecials(Tail(s))

\* .replace(/\*/g, ".*")
RECURSIVE ReplaceStars(_)
ReplaceStars(s) ==
    IF s = << >> THEN << >>
    ELSE (IF s[1] = "*" THEN << ".", "*" >> ELSE << s[1] >>)
         \o ReplaceStars(Tail(s))

\* .replace(/\$/g, "$"): every dollar character is replaced by a dollar
\* character; the backslash the first replacement put before it stays.
RECURSIVE ReplaceDollars(_)
ReplaceDollars(s) ==
    IF s = << >> THEN << >>
    ELSE (IF s[1] = "$" THEN << "$" >> ELSE << s[1] >>)
         \o ReplaceDollars(Tail(s))

\* How the regular expression engine reads a source from its first
\* character on: backslash-character is that character, ".*" any
\* sequence, "." any character, "$" the end of the input.
RECURSIVE MatchHere(_, _)
MatchHere(re, s) ==
    IF re = << >> THEN TRUE
    ELSE IF re[1] = "\\"
    THEN /\ Len(re) >= 2
         /\ s # << >>
         /\ s[1] = re[2]
         /\ MatchHere(SubSeq(re, 3, Len(re)), Tail(s))
    ELSE IF re[1] = "." /\ Len(re) >= 2 /\ re[2] = "*"
    THEN \E k \in 0..Len(s) :
            MatchHere(SubSeq(re, 3, Len(re)), SubSeq(s, k + 1, Len(s)))
    ELSE IF re[1] = "."
    THEN s # << >> /\ MatchHere(Tail(re), Tail(s))
    ELSE IF re[1] = "$"
    THEN s = << >> /\ MatchHere(Tail(re), s)
    ELSE /\ s # << >>
         /\ s[1] = re[1]
         /\ MatchHere(Tail(re), Tail(s))

\* regex.test(path)
RegExpTest(re, s) ==
    IF re # << >> /\ re[1] = "^" THEN MatchHere(Tail(re), s)
    ELSE \E k \in 0..Len(s) : MatchHere(re, SubSeq(s, k + 1, Len(s)))

\* matchesPattern(path, pattern)
MatchesPattern(path, pattern) ==
    RegExpTest(<< "^" >> \o ReplaceDollars(ReplaceStars(EscapeSpecials(pattern))),
               path)

\* for (const p of patterns) { if (this.matchesPattern(pathname, p)) ... }
RECURSIVE FirstMatch(_, _)
FirstMatch(patterns, pathname) ==
    IF patterns = << >> THEN FALSE
    ELSE IF MatchesPattern(pathname, patterns[1]) THEN TRUE
    ELSE FirstMatch(Tail(patterns), pathname)

\* isAllowed, lines 95-108: the decision of one rule set for a path
RuleAllows_DisallowFirst(rule, pathname) ==
    IF FirstMatch(rule.disallow, pathname) THEN FALSE
    ELSE TRUE

RuleAllows(rule, pathname) ==
    IF FirstMatch(rule.allow, pathname) THEN TRUE
    ELSE IF FirstMatch(rule.disallow, pathname) THEN FALSE
    ELSE TRUE

NoDelay == -1       \* crawlDelay left undefined
EmptyRule(agent) ==
    [userAgent |-> agent, disallow |-> << >>,
     allow |-> << >>, crawlDelay |-> NoDelay]

\* ---- parse: the policy text is a sequence of lines, each given as the
\* key and the value that line.split(":") and trim() make of it.
UpperCase == << "A", "B", "D", "E", "G", "L", "N", "O", "R", "S", "T", "U", "W", "Y" >>
LowerCase == << "a", "b", "d", "e", "g", "l", "n", "o", "r", "s", "t", "u", "w", "y" >>

ToLowerChar(ch) ==
    IF \E k \in DOMAIN UpperCase : UpperCase[k] = ch
    THEN LowerCase[CHOOSE k \in DOMAIN UpperCase : UpperCase[k] = ch]
    ELSE ch

\* String.prototype.toLowerCase
ToLowerCase(s) == [k \in DOMAIN s |-> ToLowerChar(s[k])]

UserAgentKey  == << "u", "s", "e", "r", "-", "a", "g", "e", "n", "t" >>
DisallowKey   == << "d", "i", "s", "a", "l", "l", "o", "w" >>
AllowKey      == << "a", "l", "l", "o", "w" >>
CrawlDelayKey == << "c", "r", "a", "w", "l", "-", "d", "e", "l", "a", "y" >>
Star          == << "*" >>
BotName       == << "B", "o", "t" >>

Digits == << "0", "1", "2", "3", "4", "5", "6", "7", "8", "9" >>
IsDigit(ch) == \E k \in DOMAIN Digits : Digits[k] = ch
DigitValue(ch) == (CHOOSE k \in DOMAIN Digits : Digits[k] = ch) - 1
NotANumber == -2

\* Number.parseFloat on a value: the number its leading digits spell
RECURSIVE LeadingDigits(_, _)
LeadingDigits(s, acc) ==
    IF s = << >> \/ ~IsDigit(s[1]) THEN acc
    ELSE LeadingDigits(Tail(s), 10 * acc + DigitValue(s[1]))

ParseFloat(s) ==
    IF s = << >> \/ ~IsDigit(s[1]) THEN NotANumber ELSE LeadingDigits(s, 0)

NoRule == [userAgent |-> << >>]       \* currentRule = null
NoParser == [rules |-> << >>, missing |-> TRUE]   \* cache miss

\* this.rules.set(key, rule)
MapSet(map, key, value) ==
    [k \in DOMAIN map \cup {key} |-> IF k = key THEN value ELSE map[k]]

\* if (currentUserAgent && currentRule) this.rules.set(...)
SaveRule(st) ==
    IF st.currentUserAgent # << >> /\ st.currentRule # NoRule
    THEN MapSet(st.rules, st.currentUserAgent, st.currentRule)
    ELSE st.rules

\* the body of the loop over the lines, lines 33-71
ParseLine(st, line) ==
    IF line.key = << >> \/ line.value = << >> THEN st
    ELSE IF ToLowerCase(line.key) = UserAgentKey
    THEN [rules |-> SaveRule(st),
          currentUserAgent |-> ToLowerCase(line.value),
          currentRule |-> EmptyRule(line.value)]
    ELSE IF st.currentRule = NoRule THEN st
    ELSE IF ToLowerCase(line.key) = DisallowKey
    THEN [st EXCEPT !.currentRule.disallow = Append(@, line.value)]
    ELSE IF ToLowerCase(line.key) = AllowKey
    THEN [st EXCEPT !.currentRule.allow = Append(@, line.value)]
    ELSE IF ToLowerCase(line.key) = CrawlDelayKey
    THEN [st EXCEPT !.currentRule.crawlDelay = ParseFloat(line.value)]
    ELSE st

RECURSIVE ParseLines(_, _)
ParseLines(st, lines) ==
    IF lines = << >> THEN st
    ELSE ParseLines(ParseLine(st, lines[1]), Tail(lines))

\* new RobotsTxtParser(content): parse, lines 26-83
Parse(lines) ==
    LET st == ParseLines([rules |-> << >>, currentUserAgent |-> << >>,
                          currentRule |-> NoRule], lines)
        rules == SaveRule(st)
    IN [rules |-> rules,
        defaultRule |-> IF Star \in DOMAIN rules THEN rules[Star]
                        ELSE EmptyRule(Star)]

\* this.rules.get(userAgent.toLowerCase()) || this.defaultRule
SelectRule_CaseSensitive(parser, userAgent) ==
    IF userAgent \in DOMAIN parser.rules
    THEN parser.rules[userAgent]
    ELSE parser.defaultRule

SelectRule(parser, userAgent) ==
    IF ToLowerCase(userAgent) \in DOMAIN parser.rules
    THEN parser.rules[ToLowerCase(userAgent)]
    ELSE parser.defaultRule

\* isAllowed(url, userAgent); the url is given as its hostname and pathname
IsAllowed(parser, url, userAgent) ==
    RuleAllows(SelectRule(parser, userAgent), url.pathname)

\* getCrawlDelay(userAgent): rule.crawlDelay || 1
GetCrawlDelay(parser, userAgent) ==
    LET delay == SelectRule(parser, userAgent).crawlDelay IN
    IF delay \in {NoDelay, NotANumber, 0} THEN 1 ELSE delay

NoInput  == [op |-> "none"]
NoOutput == [op |-> "none"]

InitRobots ==
    /\ rin = NoInput
    /\ rout = NoOutput

\* ------------------------------------------------------ the crawl executor
\* EthicalScraper of src/scraper.ts.
ScraperUserAgent == BotName     \* stands for this.config.userAgent
BlockedReason    == "Blocked by robots.txt"
NoReason         == ""          \* reason left undefined
NoStatus         == 0           \* statusCode left undefined
NoArray          == [array |-> << >>, same |-> FALSE, none |-> TRUE]
NoAttempt        == [pc |-> "idle", n |-> 0, url |-> [hostname |-> "", pathname |-> << >>],
                     allowed |-> FALSE, robots |-> "none", events |-> << >>,
                     logged |-> 0, outcome |-> "none"]

\* What the fetch of /robots.txt and the construction of the parser do.
RobotsResponses(contents) ==
    {[kind |-> "throws", content |-> << >>, built |-> FALSE],
     [kind |-> "not_ok", content |-> << >>, built |-> FALSE]}
    \cup [kind : {"ok"}, content : contents, built : BOOLEAN]

\* checkRobotsTxt(url), lines 141-178: the decision, the cache afterwards
\* and the branch taken.
CheckRobotsTxt_FailClosed(cache, url, response) ==
    IF cache[url.hostname] # NoParser
    THEN [allowed |-> IsAllowed(cache[url.hostname], url, ScraperUserAgent),
          cache |-> cache, robots |-> "cached"]
    ELSE IF response.kind = "throws"
    THEN [allowed |-> FALSE, cache |-> cache, robots |-> "fetch_error"]
    ELSE IF response.kind = "not_ok"
    THEN [allowed |-> FALSE, cache |-> cache, robots |-> "not_ok"]
    ELSE IF ~response.built
    THEN [allowed |-> TRUE, cache |-> cache, robots |-> "parse_error"]
    ELSE LET parser == Parse(response.content) IN
         [allowed |-> IsAllowed(parser, url, ScraperUserAgent),
          cache |-> [cache EXCEPT ![url.hostname] = parser],
          robots |-> "parsed"]

CheckRobotsTxt(cache, url, response) ==
    IF cache[url.hostname] # NoParser
    THEN [allowed |-> IsAllowed(cache[url.hostname], url, ScraperUserAgent),
          cache |-> cache, robots |-> "cached"]
    ELSE IF response.kind = "throws"
    THEN [allowed |-> TRUE, cache |-> cache, robots |-> "fetch_error"]
    ELSE IF response.kind = "not_ok"
    THEN [allowed |-> TRUE, cache |-> cache, robots |-> "not_ok"]
    ELSE IF ~response.built
    THEN [allowed |-> TRUE, cache |-> cache, robots |-> "parse_error"]
    ELSE LET parser == Parse(response.content) IN
         [allowed |-> IsAllowed(parser, url, ScraperUserAgent),
          cache |-> [cache EXCEPT ![url.hostname] = parser],
          robots |-> "parsed"]

\* if (!allowed) { log; throw } else await this.rateLimiter.waitForSlot
AfterRobots_NeverBlocked(allowed) == "limiter"

AfterRobots(allowed) == IF allowed THEN "limiter" ELSE "blocked"

\* The entries scrape pushes; n is the number of the attempt.
BlockedEntry(a, t) ==
    [url |-> a.url, timestamp |-> t, allowed |-> FALSE,
     reason |-> BlockedReason, statusCode |-> NoStatus, n |-> a.n]

FetchedEntry(a, t, status) ==
    [url |-> a.url, timestamp |-> t, allowed |-> TRUE,
     reason |-> NoReason, statusCode |-> status, n |-> a.n]

\* What the fetch of the URL and the read of its body do.
FetchResponses ==
    {[kind |-> "network_error", status |-> NoStatus],
     [kind |-> "not_ok", status |-> 404],
     [kind |-> "body_error", status |-> 200],
     [kind |-> "ok", status |-> 200]}

\* scrape, lines 85-135: the entries pushed for a response and how the
\* call ends.
FetchOutcome(a, t, response) ==
    IF response.kind = "network_error"
    THEN [pushed |-> << >>, outcome |-> "threw"]
    ELSE IF response.kind = "not_ok"
    THEN [pushed |-> << FetchedEntry(a, t, response.status) >>, outcome |-> "threw"]
    ELSE IF response.kind = "body_error"
    THEN [pushed |-> << >>, outcome |-> "threw"]
    ELSE [pushed |-> << FetchedEntry(a, t, response.status) >>, outcome |-> "returned"]

\* getLogs(): return [...this.logs]
GetLogs_SameArray(log) == [array |-> log, same |-> TRUE, none |-> FALSE]

GetLogs(log) == [array |-> log, same |-> FALSE, none |-> FALSE]

\* clearLogs(): this.logs = []
ClearLogs(log) == << >>

InitScraper ==
    /\ logs = << >>
    /\ epoch = 0
    /\ returned = NoArray
    /\ robotsTxtCache = [d \in Domains |-> NoParser]
    /\ attempt = NoAttempt

\* -------------------------------------------------------------- chunkText
\* chunkText (src/embeddings.ts) on texts that are sequences of characters.
\* Offsets count from 0 as in the source.
Whitespace == {" ", "\n"}

\* String.prototype.slice(from, to): a negative offset counts from the end.
SliceOffset(text, k) ==
    IF k < 0 THEN Max(Len(text) + k, 0) ELSE Min(k, Len(text))

Slice(text, from, to) ==
    LET a == SliceOffset(text, from)
        b == SliceOffset(text, to)
    IN  IF a >= b THEN << >> ELSE SubSeq(text, a + 1, b)

\* String.prototype.lastIndexOf(c): -1 when c does not occur.
LastIndexOf(text, c) ==
    LET at == {k \in 1..Len(text) : text[k] = c}
    IN  IF at = {} THEN -1 ELSE (CHOOSE k \in at : \A j \in at : j <= k) - 1

\* The chunks if they were pushed as they were cut.
Trim_Nothing(text) == text

\* String.prototype.trim()
Trim(text) ==
    LET ink == {k \in 1..Len(text) : text[k] \notin Whitespace}
    IN  IF ink = {} THEN << >>
        ELSE SubSeq(text, CHOOSE k \in ink : \A j \in ink : k <= j,
                          CHOOSE k \in ink : \A j \in ink : j <= k)

\* One iteration of the while loop: the chunk pushed, the part of the text it
\* was cut from, and the next value of start.
ChunkStep(text, maxChunkSize, overlap, start) ==
    LET end         == Min(start + maxChunkSize, Len(text))
        chunk       == Slice(text, start, end)
        lastPeriod  == LastIndexOf(chunk, ".")
        lastNewline == LastIndexOf(chunk, "\n")
        breakPoint  == Max(lastPeriod, lastNewline)
        cut         == breakPoint > 0 /\ end < Len(text)
        to          == IF cut THEN start + breakPoint + 1 ELSE end
        next        == IF cut THEN start + breakPoint + 1 - overlap ELSE end
    IN  [pushed |-> Trim(Slice(text, start, to)),
         from   |-> SliceOffset(text, start),
         to     |-> Max(SliceOffset(text, to), SliceOffset(text, start)),
         start  |-> IF next >= end THEN end ELSE next]

\* chunks.filter((chunk) => chunk.length > 0)
NonEmptyChunks_KeepAll(chunks) == chunks

NonEmptyChunks(chunks) == SelectSeq(chunks, LAMBDA chunk : Len(chunk) > 0)

NoChunking == [pc |-> "idle", text |-> << >>, maxChunkSize |-> 1, overlap |-> 0,
               start |-> 0, chunks |-> << >>, cuts |-> << >>, result |-> << >>]

\* ----------------------------------------------------------- hybridSearch
\* SemanticSearchEngine (src/semantic-search.ts).  Similarities are counted
\* in hundredths, dates are day numbers, and a missing attribute is NoValue
\* (a string) or NoEffectiveDate.
NoValue           == ""
NoEffectiveDate   == 0
DefaultSimilarity == 50    \* similarity: 0.5 of a keyword match
NoRange           == [start |-> 0, end |-> 0]   \* filters.dateRange undefined
NoFilters == [jurisdiction |-> << >>, category |-> << >>, priority |-> << >>,
              dateRange |-> NoRange]
NoRegulation == [id |-> NoValue, jurisdiction |-> NoValue, category |-> NoValue,
                 priority |-> NoValue, effective_date |-> NoEffectiveDate]

Includes(list, x) == \E k \in 1..Len(list) : list[k] = x

\* Array.prototype.slice(0, n) for n >= 0
Take(list, n) == SubSeq(list, 1, Min(n, Len(list)))

\* regulations.find((r) => r.id === regulationId)
Find(regulations, regulationId) ==
    LET at == {k \in 1..Len(regulations) : regulations[k].id = regulationId}
    IN  IF at = {} THEN NoRegulation
        ELSE regulations[CHOOSE k \in at : \A j \in at : k <= j]

\* The list filter if a result without the attribute passed it.
ListFilter_KeepsMissing(results, list, field) ==
    IF list # << >>
    THEN SelectSeq(results, LAMBDA r : r[field] = NoValue \/ Includes(list, r[field]))
    ELSE results

\* search(): the client-side filters, lines 93-113.
ListFilter(results, list, field) ==
    IF list # << >>
    THEN SelectSeq(results, LAMBDA r : r[field] # NoValue /\ Includes(list, r[field]))
    ELSE results

DateFilter(results, dateRange) ==
    IF dateRange # NoRange
    THEN SelectSeq(results, LAMBDA r :
             IF r.effectiveDate = NoEffectiveDate THEN FALSE
             ELSE r.effectiveDate >= dateRange.start
                    /\ r.effectiveDate <= dateRange.end)
    ELSE results

\* search(query, filters, limit) on the documents match_documents returned.
Search(documents, table, filters, limit) ==
    LET wanted == {documents[k].regulation_id : k \in 1..Len(documents)}
                      \ {NoValue}
        regulations == SelectSeq(table, LAMBDA r : r.id \in wanted)
        results == [k \in 1..Len(documents) |->
            LET doc == documents[k]
                regulation == Find(regulations, doc.regulation_id)
            IN  [id |-> doc.id,
                 regulationId |-> doc.regulation_id,
                 jurisdiction |-> regulation.jurisdiction,
                 category |-> regulation.category,
                 priority |-> regulation.priority,
                 similarity |-> doc.similarity,
                 effectiveDate |-> regulation.effective_date]]
        byJurisdiction == ListFilter(results, filters.jurisdiction, "jurisdiction")
        byCategory     == ListFilter(byJurisdiction, filters.category, "category")
        byPriority     == ListFilter(byCategory, filters.priority, "priority")
        byDate         == DateFilter(byPriority, filters.dateRange)
    IN  Take(byDate, limit)

\* keywordQuery: textSearch on the title, .in() per list filter, .limit(limit)
ColumnIn(rows, list, column) ==
    IF list # << >>
    THEN SelectSeq(rows, LAMBDA r : r[column] # NoValue /\ Includes(list, r[column]))
    ELSE rows

KeywordSearch(table, matching, filters, limit) ==
    LET byTitle        == SelectSeq(table, LAMBDA r : r.id \in matching)
        byJurisdiction == ColumnIn(byTitle, filters.jurisdiction, "jurisdiction")
        byCategory     == ColumnIn(byJurisdiction, filters.category, "category")
        byPriority     == ColumnIn(byCategory, filters.priority, "priority")
    IN  Take(byPriority, limit)

\* Map: has(key) and set(key, value), values() in insertion order.
Has(merged, key) == \E k \in 1..Len(merged) : merged[k].regulationId = key

\* set(key, value) if it left the value of a key it already holds.
Set_KeepsFirst(merged, value) ==
    IF Has(merged, value.regulationId) THEN merged ELSE Append(merged, value)

Set(merged, value) ==
    IF Has(merged, value.regulationId)
    THEN [k \in 1..Len(merged) |->
             IF merged[k].regulationId = value.regulationId
             THEN value ELSE merged[k]]
    ELSE Append(merged, value)

\* The semantic loop if it kept a result without a regulationId.
RECURSIVE AddSemantic_KeepsAll(_, _)
AddSemantic_KeepsAll(merged, semanticResults) ==
    IF semanticResults = << >> THEN merged
    ELSE AddSemantic_KeepsAll(Set(merged, Head(semanticResults)),
                              Tail(semanticResults))

\* for (const result of semanticResults) if (result.regulationId) set(...)
RECURSIVE AddSemantic(_, _)
AddSemantic(merged, semanticResults) ==
    IF semanticResults = << >> THEN merged
    ELSE LET found == Head(semanticResults)
         IN  AddSemantic(IF found.regulationId # NoValue
                         THEN Set(merged, found) ELSE merged,
                         Tail(semanticResults))

KeywordResult(regulation) ==
    [id |-> regulation.id,
     regulationId |-> regulation.id,
     jurisdiction |-> regulation.jurisdiction,
     category |-> regulation.category,
     priority |-> regulation.priority,
     similarity |-> DefaultSimilarity,
     effectiveDate |-> regulation.effective_date]

\* for (const regulation of keywordResults) if (!mergedResults.has(...)) set
RECURSIVE AddKeyword_Overwrites(_, _)
AddKeyword_Overwrites(merged, keywordResults) ==
    IF keywordResults = << >> THEN merged
    ELSE AddKeyword_Overwrites(Set(merged, KeywordResult(Head(keywordResults))),
                               Tail(keywordResults))

RECURSIVE AddKeyword(_, _)
AddKeyword(merged, keywordResults) ==
    IF keywordResults = << >> THEN merged
    ELSE LET regulation == Head(keywordResults)
         IN  AddKeyword(IF ~Has(merged, regulation.id)
                        THEN Set(merged, KeywordResult(regulation)) ELSE merged,
                        Tail(keywordResults))

\* .sort((a, b) => b.similarity - a.similarity): stable, largest first.
RECURSIVE SortBySimilarity_Ascending(_)
SortBySimilarity_Ascending(results) ==
    IF results = << >> THEN << >>
    ELSE LET first == Head(results)
             rest  == SortBySimilarity_Ascending(Tail(results))
             keep  == SelectSeq(rest, LAMBDA r : r.similarity < first.similarity)
             after == SelectSeq(rest, LAMBDA r : r.similarity >= first.similarity)
         IN  keep \o << first >> \o after

RECURSIVE SortBySimilarity(_)
SortBySimilarity(results) ==
    IF results = << >> THEN << >>
    ELSE LET first == Head(results)
             rest  == SortBySimilarity(Tail(results))
             keep  == SelectSeq(rest, LAMBDA r : r.similarity > first.similarity)
             after == SelectSeq(rest, LAMBDA r : r.similarity <= first.similarity)
         IN  keep \o << first >> \o after

\* Merge and deduplicate, sort by similarity, return the top results.
Merge(semanticResults, keywordResults) ==
    AddKeyword(AddSemantic(<< >>, semanticResults), keywordResults)

HybridResult(semanticResults, keywordResults, limit) ==
    Take(SortBySimilarity(Merge(semanticResults, keywordResults)), limit)

NoQuery == [pc |-> "idle", documents |-> << >>, matching |-> {},
            filters |-> NoFilters, limit |-> 0, semanticResults |-> << >>,
            keywordResults |-> << >>, result |-> << >>]

\* ------------------------------------------------------------ runPipeline
\* PipelineOrchestrator.runPipeline (src/Dockerfile): its locals, the calls
\* it has made so far in order, and what it returned.  thrown, extraction and
\* embedding record what the services did to this run: the stage whose
\* exception reached the outer catch, the outcome of step 3 and the outcome
\* of each chunk; written holds the rows the run added to documents.
NoId    == ""   \* null / undefined identifier
NoChunk == -1   \* an error or a call that belongs to no chunk
NoOptions == [autoProcess |-> TRUE, autoEmbed |-> TRUE]
NoReturn  == [status |-> "", scrapedContentId |-> NoId, regulationId |-> NoId,
              documentIds |-> << >>, errors |-> << >>]
NoRun == [pc |-> "idle", options |-> NoOptions, errors |-> << >>,
          scrapedContentId |-> NoId, regulationId |-> NoId,
          documentIds |-> << >>, chunks |-> 0, i |-> 0, events |-> << >>,
          thrown |-> "", extraction |-> "", embedding |-> << >>,
          written |-> << >>, result |-> NoReturn]

ScrapedContentId == "scraped-1"      \* scrapedData.id
RegulationId     == "regulation-1"   \* regulationData.id
DocumentId(k)    == [chunk_index |-> k]   \* docData.id of chunk k

Called(name, k)  == [call |-> name, chunk |-> k]

\* The row inserted into documents for chunk k: chunk_index and, in its
\* metadata, regulation_id: regulationId.
DocumentRow_NoRegulation(r, k) == [chunk_index |-> k, regulation_id |-> NoId]

DocumentRow(r, k) == [chunk_index |-> k, regulation_id |-> r.regulationId]
Error(message, k) == [message |-> message, chunk |-> k]

\* `options.autoProcess !== false`, then `options.autoEmbed !== false`
AfterStore(options) ==
    IF options.autoProcess THEN "process"
    ELSE IF options.autoEmbed THEN "chunk" ELSE "finish"

AfterProcess(options) == IF options.autoEmbed THEN "chunk" ELSE "finish"

\* Determine status, then build the PipelineResult.
FinalStatus_ByDocuments(errors, scrapedContentId, documentIds) ==
    IF errors = << >> THEN "success"
    ELSE IF documentIds # << >> THEN "partial" ELSE "failed"

FinalStatus(errors, scrapedContentId, documentIds) ==
    IF errors = << >> THEN "success"
    ELSE IF scrapedContentId # NoId THEN "partial" ELSE "failed"

Completed(r) ==
    [status |-> FinalStatus(r.errors, r.scrapedContentId, r.documentIds),
     scrapedContentId |-> r.scrapedContentId,
     regulationId |-> r.regulationId,
     documentIds |-> r.documentIds,
     errors |-> r.errors]

\* The outer catch: status failed, the locals as they are, the message added.
Caught(r, message) ==
    [status |-> "failed",
     scrapedContentId |-> r.scrapedContentId,
     regulationId |-> r.regulationId,
     documentIds |-> r.documentIds,
     errors |-> Append(r.errors, Error(message, NoChunk))]


InitIngest ==
    /\ run = NoRun
    /\ chunking = NoChunking
    /\ query = NoQuery

\* ------------------------------------------------------------------ Init
InitScheduler ==
    /\ jobs = << >>
    /\ now = 0
    /\ pc = [w \in Workers |-> "idle"]
    /\ job = [w \in Workers |-> NoJob]
    /\ result = [w \in Workers |-> NoResult]
    /\ maxJobs = [w \in Workers |-> 0]
    /\ i = [w \in Workers |-> 0]
    /\ processed = [w \in Workers |-> 0]
    /\ calls = [w \in Workers |-> 0]
    /\ fails = << >>
    /\ req = NoRequest

InitPolite == InitLimiter /\ InitRobots /\ InitScraper

InitEmpty == InitScheduler /\ InitPolite /\ InitIngest

Init == InitEmpty

\* ---------------------------------------------------------------- inputs
\* The arguments the callers of a specification pass to createJob and
\* bulkCreateJobs, and whether the request is recorded in req.
SharedInputs ==
    [cap |-> MaxShared, sources |-> {"src-a"}, urls |-> {"u1"},
     priorities |-> {0}, scheds |-> {NoDate}, record |-> FALSE]

SeqInputs == [SharedInputs EXCEPT !.cap = MaxJobs]

DrainInputs == [SharedInputs EXCEPT !.cap = MaxQueue]

SubmitInputs ==
    [cap |-> MaxSubmit, sources |-> Sources, urls |-> Urls,
     priorities |-> Priorities, scheds |-> {NoDate, TickStep},
     record |-> TRUE]

AllOk ==
    [robots |-> TRUE, fetch |-> TRUE, store |-> TRUE, extract |-> TRUE,
     embed |-> TRUE]

\* The pipeline runs each specification exercises the scheduler with.
Succeeds         == AllOk
Partial          == [AllOk EXCEPT !.embed = FALSE]
RobotsDisallowed == [AllOk EXCEPT !.robots = FALSE]
FetchError       == [AllOk EXCEPT !.fetch = FALSE]

SharedEnvs == {Succeeds, Partial, RobotsDisallowed}
SeqEnvs    == {Succeeds, RobotsDisallowed, FetchError}
DrainEnvs  == {Succeeds, FetchError}

\* --------------------------------------------------------------- actions
Tick(limit) ==
    /\ now < limit * TickStep
    /\ now' = now + TickStep
    /\ UNCHANGED << politeVars, ingestVars >>
    /\ UNCHANGED << jobs, workerVars, fails, req >>

DoCreateJob(in) ==
    /\ Len(jobs) < in.cap
    /\ \E s \in in.sources, u \in in.urls, p \in in.priorities,
          d \in in.scheds :
          /\ jobs' = CreateJob(jobs, now, s, u, p, d)
          /\ req' = IF in.record
                    THEN [op |-> "createJob", source_id |-> s,
                          urls |-> << u >>, priority |-> p,
                          scheduled_at |-> d, at |-> now]
                    ELSE req
    /\ fails' = Append(fails, 0)
    /\ UNCHANGED << politeVars, ingestVars >>
    /\ UNCHANGED << now, workerVars >>

UrlLists(urls) ==
    {<< u >> : u \in urls} \cup {<< u, v >> : u \in urls, v \in urls}

DoBulkCreateJobs(in) ==
    /\ \E s \in in.sources, us \in UrlLists(in.urls), p \in in.priorities :
          /\ Len(jobs) + Len(us) <= in.cap
          /\ jobs' = BulkCreateJobs(jobs, now, s, us, p)
          /\ req' = IF in.record
                    THEN [op |-> "bulkCreateJobs", source_id |-> s,
                          urls |-> us, priority |-> p,
                          scheduled_at |-> NoDate, at |-> now]
                    ELSE req
          /\ fails' = fails \o [k \in 1..Len(us) |-> 0]
    /\ UNCHANGED << politeVars, ingestVars >>
    /\ UNCHANGED << now, workerVars >>

\* for (let i = 0; i < maxJobs; i++)
LoopCondition_Inclusive(w) == i[w] <= maxJobs[w]

LoopCondition(w) == i[w] < maxJobs[w]

\* processQueue(maxJobs): entry
ProcessQueue(w, batches) ==
    /\ pc[w] \in {"idle", "done"}
    /\ \E m \in batches : maxJobs' = [maxJobs EXCEPT ![w] = m]
    /\ pc' = [pc EXCEPT ![w] = "loop"]
    /\ i' = [i EXCEPT ![w] = 0]
    /\ processed' = [processed EXCEPT ![w] = 0]
    /\ calls' = [calls EXCEPT ![w] = 0]
    /\ UNCHANGED << politeVars, ingestVars >>
    /\ UNCHANGED << jobs, now, job, result, fails, req >>

\* loop test i < maxJobs fails: return processed
LoopExit(w) ==
    /\ pc[w] = "loop"
    /\ ~LoopCondition(w)
    /\ pc' = [pc EXCEPT ![w] = "done"]
    /\ result' = [result EXCEPT ![w] = NoResult]
    /\ UNCHANGED << politeVars, ingestVars >>
    /\ UNCHANGED << jobs, now, job, maxJobs, i, processed, calls, fails,
                    req >>

\* const job = await this.getNextJob(); if (!job) break
LoopGetNextJob(w) ==
    /\ pc[w] = "loop"
    /\ LoopCondition(w)
    /\ \E j \in GetNextJob(jobs, now) :
          /\ job' = [job EXCEPT ![w] = j]
          /\ pc' = [pc EXCEPT ![w] = IF j = NoJob THEN "done" ELSE "execute"]
    /\ result' = [result EXCEPT ![w] = NoResult]
    /\ UNCHANGED << politeVars, ingestVars >>
    /\ UNCHANGED << jobs, now, maxJobs, i, processed, calls, fails, req >>

\* executeJob: await this.updateJobStatus(job.id, "running")
ExecuteStart(w) ==
    /\ pc[w] = "execute"
    /\ jobs' = UpdateJobStatus(jobs, job[w].id, "running", "")
    /\ calls' = [calls EXCEPT ![w] = @ + 1]
    /\ pc' = [pc EXCEPT ![w] = "pipeline"]
    /\ UNCHANGED << politeVars, ingestVars >>
    /\ UNCHANGED << now, job, result, maxJobs, i, processed, fails, req >>

\* executeJob: const result = await this.orchestrator.runPipeline(...)
ExecutePipeline(w, envs) ==
    /\ pc[w] = "pipeline"
    /\ \E env \in envs :
          result' = [result EXCEPT ![w] = RunPipeline(env)]
    /\ pc' = [pc EXCEPT ![w] = "outcome"]
    /\ UNCHANGED << politeVars, ingestVars >>
    /\ UNCHANGED << jobs, now, job, maxJobs, i, processed, calls, fails,
                    req >>

\* executeJob: the outcome update; back in processQueue: processed++, i++.
\* observe: whether the specification counts the failed executions.
ExecuteFinish(w, observe) ==
    /\ pc[w] = "outcome"
    /\ jobs' = ExecuteOutcome(jobs, now, job[w], result[w])
    /\ fails' = IF observe /\ ~PipelineSucceeded(result[w])
                THEN [fails EXCEPT ![job[w].id] = @ + 1]
                ELSE fails
    /\ processed' = [processed EXCEPT ![w] = @ + 1]
    /\ i' = [i EXCEPT ![w] = @ + 1]
    /\ job' = [job EXCEPT ![w] = NoJob]
    /\ pc' = [pc EXCEPT ![w] = "loop"]
    /\ UNCHANGED << politeVars, ingestVars >>
    /\ UNCHANGED << now, result, maxJobs, calls, req >>

\* ------------------------------------------------------- specifications
\* Two workers drain one shared table, one job per processQueue call.
Next ==
    \/ Tick(MaxTicks)
    \/ DoCreateJob(SharedInputs)
    \/ DoBulkCreateJobs(SharedInputs)
    \/ \E w \in Workers : ProcessQueue(w, {1})
    \/ \E w \in Workers : LoopExit(w)
    \/ \E w \in Workers : LoopGetNextJob(w)
    \/ \E w \in Workers : ExecuteStart(w)
    \/ \E w \in Workers : ExecutePipeline(w, SharedEnvs)
    \/ \E w \in Workers : ExecuteFinish(w, FALSE)

Spec == Init /\ [][Next]_vars

\* One worker runs its jobs through all their retries.
SeqWorker == "w1"

NextSeq ==
    \/ Tick(MaxTicks)
    \/ DoCreateJob(SeqInputs)
    \/ DoBulkCreateJobs(SeqInputs)
    \/ ProcessQueue(SeqWorker, 1..MaxBatch)
    \/ LoopExit(SeqWorker)
    \/ LoopGetNextJob(SeqWorker)
    \/ ExecuteStart(SeqWorker)
    \/ ExecutePipeline(SeqWorker, SeqEnvs)
    \/ ExecuteFinish(SeqWorker, TRUE)

SpecSeq == Init /\ [][NextSeq]_vars

\* The same worker when every call it awaits settles and processQueue is
\* called again and again (the cron route), while the clock may advance.
SeqStep ==
    \/ ProcessQueue(SeqWorker, 1..MaxBatch)
    \/ LoopExit(SeqWorker)
    \/ LoopGetNextJob(SeqWorker)
    \/ ExecuteStart(SeqWorker)
    \/ ExecutePipeline(SeqWorker, SeqEnvs)
    \/ ExecuteFinish(SeqWorker, TRUE)

NextRetry ==
    \/ Tick(MaxTicks)
    \/ DoCreateJob(SeqInputs)
    \/ DoBulkCreateJobs(SeqInputs)
    \/ SeqStep

SpecRetry == Init /\ [][NextRetry]_vars /\ WF_vars(SeqStep)

\* One worker drains a queue of several jobs and is always resumed (every
\* call it awaits settles).
DrainStep ==
    \/ ProcessQueue(SeqWorker, 1..MaxBatch)
    \/ LoopExit(SeqWorker)
    \/ LoopGetNextJob(SeqWorker)
    \/ ExecuteStart(SeqWorker)
    \/ ExecutePipeline(SeqWorker, DrainEnvs)
    \/ ExecuteFinish(SeqWorker, FALSE)

NextDrain ==
    \/ Tick(MaxDrainTicks)
    \/ DoCreateJob(DrainInputs)
    \/ DoBulkCreateJobs(DrainInputs)
    \/ DrainStep

SpecDrain == Init /\ [][NextDrain]_vars /\ WF_vars(DrainStep)

\* Only submissions run; each request is recorded in req.
NextSubmit ==
    \/ Tick(MaxTicks)
    \/ DoCreateJob(SubmitInputs)
    \/ DoBulkCreateJobs(SubmitInputs)

SpecSubmit == Init /\ [][NextSubmit]_vars

\* getNextJob applied to the tables the scheduler can leave behind.
Statuses    == {"pending", "running", "completed", "failed"}
SelectTimes == {0, BackoffBase, TickStep}

SelectRows ==
    {[NewRow("src-a", "u1", p, s) EXCEPT
         !.status = st,
         !.retry_count = IF st = "failed" THEN MaxRetries ELSE 0] :
     p \in Priorities, s \in SelectTimes, st \in Statuses}

RECURSIVE Tables(_)
Tables(n) ==
    IF n = 0 THEN {<< >>}
    ELSE LET shorter == Tables(n - 1) IN
         shorter \cup {Append(t, r) : t \in {x \in shorter : Len(x) = n - 1},
                                      r \in SelectRows}

InitSelect ==
    /\ jobs \in Tables(MaxRows)
    /\ now \in {0, BackoffBase}
    /\ pc = [w \in Workers |-> IF w = SeqWorker THEN "loop" ELSE "idle"]
    /\ job = [w \in Workers |-> NoJob]
    /\ result = [w \in Workers |-> NoResult]
    /\ maxJobs = [w \in Workers |-> IF w = SeqWorker THEN 1 ELSE 0]
    /\ i = [w \in Workers |-> 0]
    /\ processed = [w \in Workers |-> 0]
    /\ calls = [w \in Workers |-> 0]
    /\ fails = [k \in DOMAIN jobs |-> 0]
    /\ req = NoRequest
    /\ InitPolite
    /\ InitIngest

NextSelect == LoopGetNextJob(SeqWorker)

SpecSelect == InitSelect /\ [][NextSelect]_vars

\* ------------------------------------------------ rate limiter: actions
schedulerVars == << jobs, workerVars, fails, req >>

\* The clock moves on; nothing else happens.
Advance(limit) ==
    /\ now < limit * ClockStep
    /\ now' = now + ClockStep
    /\ UNCHANGED << schedulerVars, politeVars, ingestVars >>

\* waitForSlot(domain), lines 517-534: up to the await of the sleep.
WaitForSlotStarts(c, domains) ==
    /\ call[c].pc \in {"idle", "returned"}
    /\ \E d \in domains :
         \E begun \in WaitForSlotBegin(domainRecords[d], now, RateLimitConfig) :
            call' = [call EXCEPT ![c] =
                        [pc |-> begun.pc, domain |-> d, now |-> begun.now,
                         recentRecords |-> begun.recentRecords,
                         totalRequests |-> begun.totalRequests,
                         sleep |-> begun.sleep]]
    /\ UNCHANGED << domainRecords, served >>

WaitStart(c, domains) ==
    /\ WaitForSlotStarts(c, domains)
    /\ UNCHANGED << now, schedulerVars, ingestVars, robotsVars, scraperVars >>

\* waitForSlot(domain), lines 537-539: the timer fired (at its due time or
\* later), the call records its request and returns.
WaitForSlotReturns(c, observe) ==
    /\ call[c].pc = "sleeping"
    /\ now >= call[c].now + call[c].sleep
    /\ domainRecords' = [domainRecords EXCEPT
                            ![call[c].domain] = WaitForSlotEnd(call[c], now)]
    /\ call' = [call EXCEPT ![c].pc = "returned",
                            ![c].recentRecords = WaitForSlotEnd(call[c], now)]
    /\ served' = IF observe
                 THEN Append(served, [caller |-> c, domain |-> call[c].domain,
                                      timestamp |-> now])
                 ELSE served

WaitEnd(c, observe) ==
    /\ WaitForSlotReturns(c, observe)
    /\ UNCHANGED << now, schedulerVars, ingestVars, robotsVars, scraperVars >>

\* One caller: every waitForSlot returns before the next one starts.
SeqCaller == "c1"

NextLimiter ==
    \/ Advance(MaxClock)
    \/ WaitStart(SeqCaller, Domains)
    \/ WaitEnd(SeqCaller, FALSE)

SpecLimiter == Init /\ [][NextLimiter]_vars

\* Several callers of one domain, their sleeps overlapping.
SharedDomain == "d1"

NextOverlap ==
    \/ Advance(MaxOverlapClock)
    \/ \E c \in Callers :
          \/ WaitStart(c, {SharedDomain})
          \/ WaitEnd(c, TRUE)

SpecOverlap == Init /\ [][NextOverlap]_vars

\* getRequestCount(domain), lines 549-554, called between the steps of the
\* waitForSlot calls; rout holds what it returned.
DoGetRequestCount ==
    /\ \E d \in Domains :
          rout' = [op |-> "getRequestCount", domain |-> d, at |-> now,
                   value |-> GetRequestCount(domainRecords[d], now)]
    /\ rout' # rout
    /\ UNCHANGED << now, schedulerVars, ingestVars, limiterVars, scraperVars, rin >>

\* The callers of a limiter of several domains, and a reader of its counts.
NextCount ==
    \/ Advance(MaxOverlapClock)
    \/ \E c \in Callers :
          \/ WaitStart(c, Domains)
          \/ WaitEnd(c, FALSE)
    \/ DoGetRequestCount

SpecCount == Init /\ [][NextCount]_vars

\* The same with one caller, whose calls never overlap.
NextCountSeq ==
    \/ Advance(MaxClock)
    \/ WaitStart(SeqCaller, Domains)
    \/ WaitEnd(SeqCaller, FALSE)
    \/ DoGetRequestCount

SpecCountSeq == Init /\ [][NextCountSeq]_vars

\* --------------------------------------- the parser applied to its inputs
RECURSIVE Strings(_, _)
Strings(alphabet, n) ==
    IF n = 0 THEN {<< >>}
    ELSE LET shorter == Strings(alphabet, n - 1) IN
         shorter \cup {Append(s, ch) : s \in {x \in shorter : Len(x) = n - 1},
                                       ch \in alphabet}

\* matchesPattern on every short pattern and path
PatternChars == {"/", "a", "*", "$"}
PathChars    == {"/", "a", "b", "$"}
Patterns     == Strings(PatternChars, MaxPatternLen) \ {<< >>}
Paths        == {<< "/" >> \o s : s \in Strings(PathChars, MaxPathLen - 1)}

InitPattern ==
    /\ InitScheduler
    /\ InitLimiter
    /\ InitScraper
    /\ InitIngest
    /\ rin \in [op : {"matchesPattern"}, path : Paths, pattern : Patterns]
    /\ rout = NoOutput

ApplyMatchesPattern ==
    /\ rin.op = "matchesPattern"
    /\ rout = NoOutput
    /\ rout' = [op |-> rin.op, value |-> MatchesPattern(rin.path, rin.pattern)]
    /\ UNCHANGED << now, schedulerVars, ingestVars, limiterVars, scraperVars, rin >>

NextPattern == ApplyMatchesPattern

SpecPattern == InitPattern /\ [][NextPattern]_vars

\* the decision of a rule set, on rule sets built from a few patterns
Private       == << "/", "p", "r", "i", "v", "a", "t", "e" >>
PrivatePublic == Private \o << "/", "p", "u", "b", "l", "i", "c" >>
RulePatterns  == {Private, PrivatePublic, << "/", "a" >>, << "/", "*", "/", "b" >>}
RulePaths     == {PrivatePublic \o << "/", "d", "o", "c" >>,
                  Private \o << "/", "d", "o", "c" >>,
                  << "/", "a" >>, << "/", "a", "/", "b" >>, << "/", "b" >>}

RECURSIVE Lists(_, _)
Lists(elements, n) ==
    IF n = 0 THEN {<< >>}
    ELSE LET shorter == Lists(elements, n - 1) IN
         shorter \cup {Append(s, e) : s \in {x \in shorter : Len(x) = n - 1},
                                      e \in elements}

RuleSets ==
    {[EmptyRule(Star) EXCEPT !.allow = al, !.disallow = dl] :
        al \in Lists(RulePatterns, MaxPatterns),
        dl \in Lists(RulePatterns, MaxPatterns)}

InitAllowed ==
    /\ InitScheduler
    /\ InitLimiter
    /\ InitScraper
    /\ InitIngest
    /\ rin \in [op : {"isAllowed"}, rule : RuleSets, pathname : RulePaths]
    /\ rout = NoOutput

ApplyRuleAllows ==
    /\ rin.op = "isAllowed"
    /\ rout = NoOutput
    /\ rout' = [op |-> rin.op, value |-> RuleAllows(rin.rule, rin.pathname)]
    /\ UNCHANGED << now, schedulerVars, ingestVars, limiterVars, scraperVars, rin >>

NextAllowed == ApplyRuleAllows

SpecAllowed == InitAllowed /\ [][NextAllowed]_vars

\* parse, isAllowed and getCrawlDelay on short policy texts
PolicyLines ==
    {[key |-> << "U", "s", "e", "r", "-", "a", "g", "e", "n", "t" >>, value |-> Star],
     [key |-> << "U", "s", "e", "r", "-", "a", "g", "e", "n", "t" >>, value |-> BotName],
     [key |-> << "u", "s", "e", "r", "-", "a", "g", "e", "n", "t" >>, value |-> << "b", "o", "t" >>],
     [key |-> << "U", "s", "e", "r", "-", "a", "g", "e", "n", "t" >>, value |-> << >>],
     [key |-> << "D", "i", "s", "a", "l", "l", "o", "w" >>, value |-> << "/", "a" >>],
     [key |-> << "D", "i", "s", "a", "l", "l", "o", "w" >>, value |-> << >>],
     [key |-> << "A", "l", "l", "o", "w" >>, value |-> << "/", "a", "/", "b" >>],
     [key |-> << "C", "r", "a", "w", "l", "-", "d", "e", "l", "a", "y" >>, value |-> << "5" >>]}
PolicyTexts  == Lists(PolicyLines, MaxLines)
PolicyAgents == {BotName, << "B", "O", "T" >>, << "N", "e", "w", "s" >>}
PolicyUrls   == {[hostname |-> "d1", pathname |-> p] :
                    p \in {<< "/", "a" >>, << "/", "a", "/", "b" >>}}

InitPolicy ==
    /\ InitScheduler
    /\ InitLimiter
    /\ InitScraper
    /\ InitIngest
    /\ rin \in [op : {"policy"}, content : PolicyTexts,
                url : PolicyUrls, userAgent : PolicyAgents]
    /\ rout = NoOutput

ApplyPolicy ==
    /\ rin.op = "policy"
    /\ rout = NoOutput
    /\ LET parser == Parse(rin.content) IN
       rout' = [op |-> rin.op,
                rule |-> SelectRule(parser, rin.userAgent),
                allowed |-> IsAllowed(parser, rin.url, rin.userAgent),
                crawlDelay |-> GetCrawlDelay(parser, rin.userAgent)]
    /\ UNCHANGED << now, schedulerVars, ingestVars, limiterVars, scraperVars, rin >>

NextPolicy == ApplyPolicy

SpecPolicy == InitPolicy /\ [][NextPolicy]_vars

\* ------------------------------------------------- crawl executor: actions
\* One scrape call at a time, as runPipeline awaits its scrape.
ScrapeUrls ==
    {[hostname |-> SharedDomain, pathname |-> p] :
        p \in {<< "/", "a" >>, << "/", "b" >>}}

\* The policy texts the site may serve: "User-agent: *", "Disallow: /a".
RobotsContents ==
    {<< [key |-> << "U", "s", "e", "r", "-", "a", "g", "e", "n", "t" >>, value |-> Star],
        [key |-> << "D", "i", "s", "a", "l", "l", "o", "w" >>, value |-> << "/", "a" >>] >>}

ForgedEntry ==
    [url |-> [hostname |-> "", pathname |-> << >>], timestamp |-> 0,
     allowed |-> TRUE, reason |-> NoReason, statusCode |-> NoStatus, n |-> 0]

\* What the caller of getLogs may do to the array it was given.
Modifications(array) ==
    (IF array = << >> THEN {}
     ELSE {SubSeq(array, 1, Len(array) - 1)})
    \cup (IF Len(array) < MaxAttempts THEN {Append(array, ForgedEntry)} ELSE {})

\* scrape(url) is called, lines 59-63
ScrapeBegin ==
    /\ attempt.pc = "idle"
    /\ attempt.n < MaxAttempts
    /\ \E u \in ScrapeUrls :
          attempt' = [NoAttempt EXCEPT !.pc = "robots", !.n = attempt.n + 1,
                                       !.url = u]
    /\ UNCHANGED << now, schedulerVars, ingestVars, limiterVars, robotsVars,
                    logs, epoch, returned, robotsTxtCache >>

\* The check if the fetch of the policy document were counted as a request
\* of the domain.
ScrapeCheckRobots_Counted ==
    /\ attempt.pc = "robots"
    /\ \E response \in RobotsResponses(RobotsContents) :
          LET checked == CheckRobotsTxt(robotsTxtCache, attempt.url, response) IN
          /\ robotsTxtCache' = checked.cache
          /\ domainRecords' =
                IF checked.robots = "cached" THEN domainRecords
                ELSE [domainRecords EXCEPT ![attempt.url.hostname] =
                         Append(@, [timestamp |-> now, count |-> 1])]
          /\ attempt' = [attempt EXCEPT
                            !.allowed = checked.allowed,
                            !.robots = checked.robots,
                            !.pc = AfterRobots(checked.allowed),
                            !.events = Append(@, "checkRobotsTxt")]
    /\ UNCHANGED << now, schedulerVars, ingestVars, call, served, robotsVars,
                    logs, epoch, returned >>

\* const allowed = await this.checkRobotsTxt(url), lines 66-67
ScrapeCheckRobots ==
    /\ attempt.pc = "robots"
    /\ \E response \in RobotsResponses(RobotsContents) :
          LET checked == CheckRobotsTxt(robotsTxtCache, attempt.url, response) IN
          /\ robotsTxtCache' = checked.cache
          /\ attempt' = [attempt EXCEPT
                            !.allowed = checked.allowed,
                            !.robots = checked.robots,
                            !.pc = AfterRobots(checked.allowed),
                            !.events = Append(@, "checkRobotsTxt")]
    /\ UNCHANGED << now, schedulerVars, ingestVars, limiterVars, robotsVars,
                    logs, epoch, returned >>

\* lines 68-76: the denied URL is logged and the call throws
ScrapeBlocked ==
    /\ attempt.pc = "blocked"
    /\ logs' = Append(logs, BlockedEntry(attempt, now))
    /\ attempt' = [attempt EXCEPT !.pc = "idle", !.outcome = "threw",
                                  !.logged = @ + 1,
                                  !.events = Append(@, "log")]
    /\ UNCHANGED << now, schedulerVars, ingestVars, limiterVars, robotsVars,
                    epoch, returned, robotsTxtCache >>

\* line 80: await this.rateLimiter.waitForSlot(domain), up to its sleep
ScrapeWaitStart ==
    /\ attempt.pc = "limiter"
    /\ WaitForSlotStarts(SeqCaller, {attempt.url.hostname})
    /\ attempt' = [attempt EXCEPT !.pc = "sleeping",
                                  !.events = Append(@, "waitForSlot")]
    /\ UNCHANGED << now, schedulerVars, ingestVars, robotsVars,
                    logs, epoch, returned, robotsTxtCache >>

\* line 80: waitForSlot returns
ScrapeWaitEnd ==
    /\ attempt.pc = "sleeping"
    /\ WaitForSlotReturns(SeqCaller, FALSE)
    /\ attempt' = [attempt EXCEPT !.pc = "fetch",
                                  !.events = Append(@, "slot")]
    /\ UNCHANGED << now, schedulerVars, ingestVars, robotsVars,
                    logs, epoch, returned, robotsTxtCache >>

\* lines 85-135: the fetch, the read of the body, the log entry, the end
ScrapeFetch ==
    /\ attempt.pc = "fetch"
    /\ \E response \in FetchResponses :
          LET o == FetchOutcome(attempt, now, response) IN
          /\ logs' = logs \o o.pushed
          /\ attempt' = [attempt EXCEPT !.pc = "idle", !.outcome = o.outcome,
                                        !.logged = @ + Len(o.pushed),
                                        !.events = Append(@, "fetch")]
    /\ UNCHANGED << now, schedulerVars, ingestVars, limiterVars, robotsVars,
                    epoch, returned, robotsTxtCache >>

\* getLogs()
DoGetLogs ==
    /\ returned' = GetLogs(logs)
    /\ UNCHANGED << now, schedulerVars, ingestVars, limiterVars, robotsVars,
                    logs, epoch, robotsTxtCache, attempt >>

\* clearLogs()
DoClearLogs ==
    /\ logs' = ClearLogs(logs)
    /\ epoch' = 1 - epoch
    /\ UNCHANGED << now, schedulerVars, ingestVars, limiterVars, robotsVars,
                    returned, robotsTxtCache, attempt >>

\* The caller changes the array getLogs returned; if that array is the
\* log itself, the log changes with it.
CallerModifies ==
    /\ ~returned.none
    /\ \E changed \in Modifications(returned.array) :
          /\ returned' = [returned EXCEPT !.array = changed]
          /\ logs' = IF returned.same THEN changed ELSE logs
    /\ UNCHANGED << now, schedulerVars, ingestVars, limiterVars, robotsVars,
                    epoch, robotsTxtCache, attempt >>

NextScraper ==
    \/ Advance(MaxScrapeClock)
    \/ ScrapeBegin
    \/ ScrapeCheckRobots
    \/ ScrapeBlocked
    \/ ScrapeWaitStart
    \/ ScrapeWaitEnd
    \/ ScrapeFetch
    \/ DoClearLogs

SpecScraper == Init /\ [][NextScraper]_vars

\* The same scraper with a caller that also reads the audit log.
NextAudit ==
    \/ Advance(MaxAuditClock)
    \/ ScrapeBegin
    \/ ScrapeCheckRobots
    \/ ScrapeBlocked
    \/ ScrapeWaitStart
    \/ ScrapeWaitEnd
    \/ ScrapeFetch
    \/ DoGetLogs
    \/ DoClearLogs
    \/ CallerModifies

SpecAudit == Init /\ [][NextAudit]_vars

\* ------------------------------------------------------------ runPipeline
pipelineFrame == << now, schedulerVars, politeVars, chunking, query >>

\* runPipeline(options) is entered: errors = [], ids null, documentIds = [].
PipelineBegin ==
    /\ run.pc = "idle"
    /\ \E options \in [autoProcess : BOOLEAN, autoEmbed : BOOLEAN] :
        run' = [NoRun EXCEPT !.pc = "scrape", !.options = options]
    /\ UNCHANGED pipelineFrame

\* Step 1: await this.scraper.scrape(options.url); a throw reaches the outer
\* catch.
PipelineScrape ==
    /\ run.pc = "scrape"
    /\ \E env \in PipelineEnvs :
        LET s == Scrape(env)
            r == [run EXCEPT !.events = Append(@, Called("scrape", NoChunk))]
        IN  run' = IF s.ok
                   THEN [r EXCEPT !.pc = "store"]
                   ELSE [r EXCEPT !.pc = "returned", !.thrown = "scrape",
                                  !.result = Caught(r, s.error)]
    /\ UNCHANGED pipelineFrame

\* Step 2 if a failed insert were recorded and the run went on.
PipelineStore_NonFatal ==
    /\ run.pc = "store"
    /\ \E stored \in BOOLEAN :
        LET r == [run EXCEPT !.events =
                      Append(@, Called("insert scraped_content", NoChunk))]
        IN  run' = IF stored
                   THEN [r EXCEPT !.pc = AfterStore(r.options),
                                  !.scrapedContentId = ScrapedContentId]
                   ELSE [r EXCEPT !.pc = AfterStore(r.options),
                                  !.thrown = "store",
                                  !.errors = Append(@, Error(StoreErrorMsg, NoChunk))]
    /\ UNCHANGED pipelineFrame

\* Step 2: insert into scraped_content; `scrapeError || !scrapedData` throws.
PipelineStore ==
    /\ run.pc = "store"
    /\ \E stored \in BOOLEAN :
        LET r == [run EXCEPT !.events =
                      Append(@, Called("insert scraped_content", NoChunk))]
        IN  run' = IF stored
                   THEN [r EXCEPT !.pc = AfterStore(r.options),
                                  !.scrapedContentId = ScrapedContentId]
                   ELSE [r EXCEPT !.pc = "returned", !.thrown = "store",
                                  !.result = Caught(r, StoreErrorMsg)]
    /\ UNCHANGED pipelineFrame

\* Step 3 if its failure reached the outer catch.
PipelineProcess_Fatal ==
    /\ run.pc = "process"
    /\ \E outcome \in {"ok", "extraction throws", "insert error"} :
        LET extracted == Append(run.events, Called("processDocument", NoChunk))
            inserted  == Append(extracted, Called("insert regulations", NoChunk))
            next      == AfterProcess(run.options)
        IN  run' =
              CASE outcome = "ok" ->
                     [run EXCEPT !.pc = next, !.extraction = outcome,
                                 !.events = inserted,
                                 !.regulationId = RegulationId]
                [] outcome = "extraction throws" ->
                     [run EXCEPT !.pc = "returned", !.extraction = outcome,
                                 !.events = extracted,
                                 !.result = Caught(run, ProcessErrorMsg)]
                [] outcome = "insert error" ->
                     [run EXCEPT !.pc = "returned", !.extraction = outcome,
                                 !.events = inserted,
                                 !.result = Caught(run, "Processing error")]
    /\ UNCHANGED pipelineFrame

\* Step 3: processDocument, then the insert into regulations, in one try.
PipelineProcess ==
    /\ run.pc = "process"
    /\ \E outcome \in {"ok", "extraction throws", "insert error"} :
        LET extracted == Append(run.events, Called("processDocument", NoChunk))
            inserted  == Append(extracted, Called("insert regulations", NoChunk))
            next      == AfterProcess(run.options)
        IN  run' =
              CASE outcome = "ok" ->
                     [run EXCEPT !.pc = next, !.extraction = outcome,
                                 !.events = inserted,
                                 !.regulationId = RegulationId]
                [] outcome = "extraction throws" ->
                     [run EXCEPT !.pc = next, !.extraction = outcome,
                                 !.events = extracted,
                                 !.errors = Append(@, Error(ProcessErrorMsg, NoChunk))]
                [] outcome = "insert error" ->
                     [run EXCEPT !.pc = next, !.extraction = outcome,
                                 !.events = inserted,
                                 !.errors = Append(@, Error("Processing error", NoChunk))]
    /\ UNCHANGED pipelineFrame

\* Step 4, first half: chunks = chunkText(cleanContent, 1000, 200).
PipelineChunk ==
    /\ run.pc = "chunk"
    /\ \E n \in 0..MaxChunks :
        run' = [run EXCEPT !.pc = "embed", !.chunks = n, !.i = 0,
                           !.events = Append(@, Called("chunkText", NoChunk))]
    /\ UNCHANGED pipelineFrame

\* The loop body if a failed chunk ended the loop.
PipelineEmbed_StopsAtFailure ==
    /\ run.pc = "embed"
    /\ run.i < run.chunks
    /\ \E outcome \in {"ok", "embedding throws", "insert error"} :
        LET k        == run.i
            embedded == Append(run.events, Called("generateEmbedding", k))
            inserted == Append(embedded, Called("insert documents", k))
        IN  run' =
              CASE outcome = "ok" ->
                     [run EXCEPT !.i = k + 1, !.events = inserted,
                                 !.embedding = Append(@, outcome),
                                 !.written = Append(@, DocumentRow(run, k)),
                                 !.documentIds = Append(@, DocumentId(k))]
                [] outcome = "embedding throws" ->
                     [run EXCEPT !.i = run.chunks, !.events = embedded,
                                 !.embedding = Append(@, outcome),
                                 !.errors = Append(@, Error(EmbedErrorMsg, k))]
                [] outcome = "insert error" ->
                     [run EXCEPT !.i = run.chunks, !.events = inserted,
                                 !.embedding = Append(@, outcome),
                                 !.errors = Append(@, Error("Embedding chunk failed", k))]
    /\ UNCHANGED pipelineFrame

\* Step 4, the loop body for chunk i, with its own try/catch.
PipelineEmbed ==
    /\ run.pc = "embed"
    /\ run.i < run.chunks
    /\ \E outcome \in {"ok", "embedding throws", "insert error"} :
        LET k        == run.i
            embedded == Append(run.events, Called("generateEmbedding", k))
            inserted == Append(embedded, Called("insert documents", k))
        IN  run' =
              CASE outcome = "ok" ->
                     [run EXCEPT !.i = k + 1, !.events = inserted,
                                 !.embedding = Append(@, outcome),
                                 !.written = Append(@, DocumentRow(run, k)),
                                 !.documentIds = Append(@, DocumentId(k))]
                [] outcome = "embedding throws" ->
                     [run EXCEPT !.i = k + 1, !.events = embedded,
                                 !.embedding = Append(@, outcome),
                                 !.errors = Append(@, Error(EmbedErrorMsg, k))]
                [] outcome = "insert error" ->
                     [run EXCEPT !.i = k + 1, !.events = inserted,
                                 !.embedding = Append(@, outcome),
                                 !.errors = Append(@, Error("Embedding chunk failed", k))]
    /\ UNCHANGED pipelineFrame

\* The loop is over (or the stages were switched off): status and return.
PipelineFinish ==
    /\ \/ run.pc = "finish"
       \/ run.pc = "embed" /\ run.i >= run.chunks
    /\ run' = [run EXCEPT !.pc = "returned", !.result = Completed(run)]
    /\ UNCHANGED pipelineFrame

NextPipeline ==
    \/ PipelineBegin
    \/ PipelineScrape
    \/ PipelineStore
    \/ PipelineProcess
    \/ PipelineChunk
    \/ PipelineEmbed
    \/ PipelineFinish

SpecPipeline == Init /\ [][NextPipeline]_vars

\* -------------------------------------------------------------- chunkText
TextChars == {"a", ".", " ", "\n"}
Texts == Strings(TextChars, MaxTextLen)

\* chunkText(text, maxChunkSize, overlap) with 0 <= overlap < maxChunkSize, at
\* the loop head with start = 0 and chunks = [].
InitChunk ==
    /\ InitScheduler
    /\ InitPolite
    /\ run = NoRun
    /\ query = NoQuery
    /\ \E text \in Texts, maxChunkSize \in 1..MaxChunkSize :
       \E overlap \in 0..(maxChunkSize - 1) :
           chunking = [NoChunking EXCEPT !.pc = "loop", !.text = text,
                                         !.maxChunkSize = maxChunkSize,
                                         !.overlap = overlap]

chunkFrame == << now, schedulerVars, politeVars, run, query >>

\* while (start < text.length) { ... }: one iteration.
ChunkIterate ==
    /\ chunking.pc = "loop"
    /\ chunking.start < Len(chunking.text)
    /\ Len(chunking.chunks) < MaxIterations
    /\ LET step == ChunkStep(chunking.text, chunking.maxChunkSize,
                             chunking.overlap, chunking.start)
       IN  chunking' = [chunking EXCEPT
                            !.chunks = Append(@, step.pushed),
                            !.cuts = Append(@, << step.from, step.to >>),
                            !.start = step.start]
    /\ UNCHANGED chunkFrame

\* The loop condition fails: return the chunks that are not empty.
ChunkReturn ==
    /\ chunking.pc = "loop"
    /\ chunking.start >= Len(chunking.text)
    /\ chunking' = [chunking EXCEPT !.pc = "returned",
                                    !.result = NonEmptyChunks(chunking.chunks)]
    /\ UNCHANGED chunkFrame

NextChunk ==
    \/ ChunkIterate
    \/ ChunkReturn

SpecChunk == InitChunk /\ [][NextChunk]_vars

\* ----------------------------------------------------------- hybridSearch
\* The regulations table: one row every filter below accepts, one row none
\* of them accepts, one row without attributes.
Regulations ==
    << [id |-> "r1", jurisdiction |-> "US", category |-> "privacy",
        priority |-> "high", effective_date |-> 2],
       [id |-> "r2", jurisdiction |-> "EU", category |-> "security",
        priority |-> "low", effective_date |-> 5],
       [id |-> "r3", jurisdiction |-> NoValue, category |-> NoValue,
        priority |-> NoValue, effective_date |-> NoEffectiveDate] >>

RegulationIds == {Regulations[k].id : k \in 1..Len(Regulations)}

SearchFilters ==
    {NoFilters,
     [NoFilters EXCEPT !.jurisdiction = << "US" >>],
     [NoFilters EXCEPT !.category = << "privacy" >>],
     [NoFilters EXCEPT !.priority = << "high" >>],
     [NoFilters EXCEPT !.dateRange = [start |-> 1, end |-> 3]],
     [jurisdiction |-> << "US" >>, category |-> << "privacy" >>,
      priority |-> << "high" >>, dateRange |-> [start |-> 1, end |-> 3]]}

\* What match_documents can return: chunks above the threshold of 0.6, each
\* of a regulation of the table or of none.
Similarities == {70, 90}
Matches == Lists([regulation_id : RegulationIds \cup {NoValue},
                  similarity : Similarities], MaxDocs)

Documents(matches) ==
    [k \in 1..Len(matches) |->
        [id |-> ToString(k), regulation_id |-> matches[k].regulation_id,
         similarity |-> matches[k].similarity]]

\* hybridSearch(query, filters, limit) is entered; the database holds the
\* documents and the title matches the query selects.
InitSearch ==
    /\ InitScheduler
    /\ InitPolite
    /\ run = NoRun
    /\ chunking = NoChunking
    /\ \E matches \in Matches, matching \in SUBSET RegulationIds,
          filters \in SearchFilters, limit \in 1..MaxLimit :
        /\ Len(matches) <= 2 * limit
        /\ query = [NoQuery EXCEPT !.pc = "called",
                                   !.documents = Documents(matches),
                                   !.matching = matching,
                                   !.filters = filters, !.limit = limit]

searchFrame == << now, schedulerVars, politeVars, run, chunking >>

\* const semanticResults = await this.search(query, filters, limit)
HybridSemantic ==
    /\ query.pc = "called"
    /\ query' = [query EXCEPT !.pc = "searched",
                    !.semanticResults = Search(query.documents, Regulations,
                                               query.filters, query.limit)]
    /\ UNCHANGED searchFrame

\* The keyword query, the merge, the sort and the return.
HybridKeyword ==
    /\ query.pc = "searched"
    /\ LET keywordResults == KeywordSearch(Regulations, query.matching,
                                           query.filters, query.limit)
       IN  query' = [query EXCEPT !.pc = "returned",
                        !.keywordResults = keywordResults,
                        !.result = HybridResult(query.semanticResults,
                                                keywordResults, query.limit)]
    /\ UNCHANGED searchFrame

NextSearch ==
    \/ HybridSemantic
    \/ HybridKeyword

SpecSearch == InitSearch /\ [][NextSearch]_vars

\* ------------------------------------------- rate limiter: configuration
\* new RateLimiter(config) followed by the first waitForSlot of a domain.
\* Configured delays: none, 500 ms (below the default minimum) and the
\* multiples of the clock step.
ConfiguredDelays ==
    {NotConfigured, 500} \cup {k * ClockStep : k \in 0..MaxDelaySteps}

PartialConfigs ==
    [requestsPerMinute : {NotConfigured, 0, 2},
     minDelay : ConfiguredDelays, maxDelay : ConfiguredDelays]

InitConfigured ==
    /\ InitScheduler
    /\ InitLimiter
    /\ InitScraper
    /\ InitIngest
    /\ rin \in [op : {"waitForSlot"}, config : PartialConfigs]
    /\ rout = NoOutput

\* The limiter is built and waitForSlot runs up to its await: no request of
\* the domain is on record, so the budget is not used up.
ApplyWaitForSlot ==
    /\ rin.op = "waitForSlot"
    /\ rout = NoOutput
    /\ \E begun \in WaitForSlotBegin(<< >>, now, Constructor(rin.config)) :
          rout' = [op |-> rin.op, config |-> Constructor(rin.config),
                   totalRequests |-> begun.totalRequests,
                   sleep |-> begun.sleep]
    /\ UNCHANGED << now, schedulerVars, ingestVars, limiterVars, scraperVars, rin >>

NextConfigured == ApplyWaitForSlot

SpecConfigured == InitConfigured /\ [][NextConfigured]_vars

\* --------------------------------------------- runPipeline with chunkText
\* The run with step 4 calling the chunker above on the cleaned content.
Contents == Strings({"a", "."}, MaxContentLen)

\* chunks = chunkText(cleanContent, 1000, 200): the call is entered.
PipelineChunkText ==
    /\ run.pc = "chunk"
    /\ \E text \in Contents :
        chunking' = [NoChunking EXCEPT !.pc = "loop", !.text = text,
                                       !.maxChunkSize = ContentChunkSize,
                                       !.overlap = ContentOverlap]
    /\ run' = [run EXCEPT !.pc = "chunking",
                          !.events = Append(@, Called("chunkText", NoChunk))]
    /\ UNCHANGED << now, schedulerVars, politeVars, query >>

\* chunkText has returned: the loop over its chunks starts.
PipelineChunked ==
    /\ run.pc = "chunking"
    /\ chunking.pc = "returned"
    /\ run' = [run EXCEPT !.pc = "embed", !.chunks = Len(chunking.result),
                          !.i = 0]
    /\ UNCHANGED << now, schedulerVars, politeVars, chunking, query >>

NextIngest ==
    \/ PipelineBegin
    \/ PipelineScrape
    \/ PipelineStore
    \/ PipelineProcess
    \/ PipelineChunkText
    \/ ChunkIterate
    \/ ChunkReturn
    \/ PipelineChunked
    \/ PipelineEmbed
    \/ PipelineFinish

SpecIngest == Init /\ [][NextIngest]_vars

\* ================================================================ claims

Executing(w) == pc[w] \in {"pipeline", "outcome"}

Finishes(w) == pc[w] = "outcome" /\ pc'[w] = "loop"

\* C1: no job is being executed by two workers at the same time: while a
\* worker is between its transition of job J to running and its outcome
\* update for J, no other worker runs J.
C1_AtMostOneWorkerPerJob ==
    \A w \in Workers, v \in Workers :
        (w # v /\ Executing(w) /\ Executing(v)) => job[w].id # job[v].id

Settled(k) == jobs[k].status \in {"pending", "failed"}

\* C2 (as stated): for a job with max_retries = M whose every execution
\* fails, after exactly M failed executions the status is failed and the
\* retry_count is M.
C2_FailedAfterM ==
    \A k \in DOMAIN jobs :
        (fails[k] = jobs[k].max_retries /\ Settled(k))
            => (jobs[k].status = "failed"
                /\ jobs[k].retry_count = jobs[k].max_retries)

\* C2 (amended): with one worker, a job with max_retries = M whose every
\* execution fails is pending with retry_count k after k <= M failed
\* executions, and failed with retry_count M after exactly M + 1 of them.
C2_FailedAfterMPlusOne ==
    \A k \in DOMAIN jobs :
        Settled(k) =>
            /\ fails[k] <= jobs[k].max_retries + 1
            /\ fails[k] <= jobs[k].max_retries
                   => (jobs[k].status = "pending"
                       /\ jobs[k].retry_count = fails[k])
            /\ fails[k] = jobs[k].max_retries + 1
                   => (jobs[k].status = "failed"
                       /\ jobs[k].retry_count = jobs[k].max_retries)

C2_Witness ==
    \E k \in DOMAIN jobs :
        /\ fails[k] = jobs[k].max_retries + 1
        /\ jobs[k].status = "failed"

\* C3: when executeJob fails for the job it was given, whose retry_count
\* is r: if r < max_retries the row becomes pending with retry_count r + 1,
\* the error message stored and scheduled_at = now + 60000 * 2^r (240000 ms
\* for r = 2); if r = max_retries the row becomes failed with its
\* retry_count unchanged and the error message stored.
C3_RetryPolicy ==
    [][\A w \in Workers :
          (Finishes(w) /\ result[w].status = "failed") =>
              LET r   == job[w].retry_count
                  k   == job[w].id
                  msg == result[w].errors[1]
              IN  IF r < job[w].max_retries
                  THEN /\ jobs'[k].status = "pending"
                       /\ jobs'[k].retry_count = r + 1
                       /\ jobs'[k].error_message = msg
                       /\ jobs'[k].scheduled_at = now + 60000 * (2 ^ r)
                       /\ r = 2 => jobs'[k].scheduled_at = now + 240000
                  ELSE /\ r = job[w].max_retries
                       /\ jobs'[k].status = "failed"
                       /\ jobs'[k].retry_count = jobs[k].retry_count
                       /\ jobs'[k].error_message = msg]_vars

C3_Witness ==
    \E w \in Workers, k \in DOMAIN jobs :
        /\ pc[w] = "loop"
        /\ result[w].status = "failed"
        /\ jobs[k].status = "pending"
        /\ jobs[k].retry_count = 3
        /\ jobs[k].scheduled_at = now + 240000
        /\ jobs[k].error_message = result[w].errors[1]
        /\ fails[k] = 3

\* C4: in every reachable state, with any interleaving of createJob,
\* bulkCreateJobs, getNextJob and executeJob by the workers, every job has
\* retry_count <= max_retries.
C4_RetryCountBounded ==
    \A k \in DOMAIN jobs : jobs[k].retry_count <= jobs[k].max_retries

C4_Witness ==
    \E k \in DOMAIN jobs, w \in Workers, v \in Workers :
        /\ jobs[k].status = "pending"
        /\ jobs[k].retry_count = jobs[k].max_retries
        /\ w # v /\ job[w].id = k /\ job[v].id = k
        /\ pc[w] = "execute" /\ pc[v] = "execute"

\* C5: failed is permanent: once a job's status is failed, no later step of
\* any worker changes its status or its retry_count.
C5_FailedIsPermanent ==
    [][\A k \in DOMAIN jobs :
          jobs[k].status = "failed" =>
              (jobs'[k].status = "failed"
               /\ jobs'[k].retry_count = jobs[k].retry_count)]_vars

\* C6: a job whose pipeline run fails with RobotsDisallowed is not
\* rescheduled by executeJob: it does not return to pending with an
\* incremented retry_count.
C6_RobotsDisallowedNotRetried ==
    [][\A w \in Workers :
          (Finishes(w) /\ result[w].errors = << RobotsDisallowedMsg >>) =>
              ~(jobs'[job[w].id].status = "pending"
                /\ jobs'[job[w].id].retry_count = job[w].retry_count + 1)]_vars

\* C7: getNextJob returns a job J only if J is pending with
\* scheduled_at <= now, and then no other pending job with
\* scheduled_at <= now has a higher priority, nor the same priority with an
\* earlier scheduled_at; it returns null exactly when no pending job with
\* scheduled_at <= now exists.
C7_GetNextJobSelection ==
    [][\A w \in Workers :
          (pc[w] = "loop" /\ pc'[w] # "loop" /\ i[w] < maxJobs[w]) =>
              LET j   == job'[w]
                  due == {k \in DOMAIN jobs :
                             /\ jobs[k].status = "pending"
                             /\ jobs[k].scheduled_at <= now}
              IN  IF j = NoJob THEN due = {}
                  ELSE /\ j.id \in due
                       /\ \A m \in due :
                             /\ jobs[m].priority <= jobs[j.id].priority
                             /\ jobs[m].priority = jobs[j.id].priority
                                    => jobs[m].scheduled_at
                                           >= jobs[j.id].scheduled_at]_vars

C7_Witness ==
    \E w \in Workers, m \in DOMAIN jobs, n \in DOMAIN jobs :
        /\ pc[w] = "execute" /\ job[w].id \notin {m, n} /\ m # n
        /\ jobs[m].status = "pending" /\ jobs[m].scheduled_at <= now
        /\ jobs[m].priority < jobs[job[w].id].priority
        /\ jobs[n].status = "pending" /\ jobs[n].scheduled_at <= now
        /\ jobs[n].priority = jobs[job[w].id].priority
        /\ jobs[n].scheduled_at > jobs[job[w].id].scheduled_at

\* C8: executeJob first sets the job to running, and its outcome update
\* leaves the job completed if and only if the pipeline returned success or
\* partial; a failed pipeline never yields completed, and a partial run
\* causes neither a retry nor a failed job.
C8_CompletedIffPipelineOk ==
    [][\A w \in Workers :
          /\ pc'[w] = "pipeline" /\ pc[w] # "pipeline"
                 => (pc[w] = "execute"
                     /\ jobs'[job[w].id].status = "running")
          /\ pc'[w] = "outcome" /\ pc[w] # "outcome" => pc[w] = "pipeline"
          /\ Finishes(w) =>
                 LET k == job[w].id IN
                 /\ jobs'[k].status = "completed"
                        <=> result[w].status \in {"success", "partial"}
                 /\ result[w].status = "partial"
                        => /\ jobs'[k].status \notin {"pending", "failed"}
                           /\ jobs'[k].retry_count = jobs[k].retry_count
                           /\ jobs'[k].scheduled_at = jobs[k].scheduled_at]_vars

C8_Witness ==
    \E w \in Workers, k \in DOMAIN jobs :
        /\ pc[w] = "loop"
        /\ result[w].status = "partial"
        /\ jobs[k].status = "completed"

NoneDue == \A k \in DOMAIN jobs :
               ~(jobs[k].status = "pending" /\ jobs[k].scheduled_at <= now)

InWindow(d, t) ==
    {k \in DOMAIN domainRecords[d] : t - domainRecords[d][k].timestamp < Window}

Oldest(d, t) ==
    CHOOSE m \in {domainRecords[d][k].timestamp : k \in InWindow(d, t)} :
        \A k \in InWindow(d, t) : m <= domainRecords[d][k].timestamp

Begins(c) == call[c].pc # "sleeping" /\ call'[c].pc = "sleeping"

Returns(c) == call[c].pc = "sleeping" /\ call'[c].pc = "returned"

\* C11: with one caller, a waitForSlot call that starts while N requests
\* of its domain are recorded within the last 60000 ms chooses a sleep of
\* at least max(60000 - (now - oldest), minDelay) ms, it records its own
\* request only after that sleep, and by then the oldest of the N records
\* is 60000 ms old or older.
C11_WaitsForOldestToLeave ==
    [][\A c \in Callers :
        /\ (Begins(c) /\
            Cardinality(InWindow(call'[c].domain, now))
                >= RateLimitConfig.requestsPerMinute)
           => call'[c].sleep >=
                Max(Window - (now - Oldest(call'[c].domain, now)),
                    RateLimitConfig.minDelay)
        /\ (Returns(c) /\
            call[c].totalRequests >= RateLimitConfig.requestsPerMinute)
           => /\ now' >= call[c].now + call[c].sleep
              /\ now' - call[c].recentRecords[1].timestamp >= Window
              /\ domainRecords'[call[c].domain]
                    [Len(domainRecords'[call[c].domain])].timestamp = now'
      ]_vars

\* A call that found the budget used up has returned, having recorded its
\* request.
C11_Witness ==
    \E c \in Callers :
        /\ call[c].pc = "returned"
        /\ call[c].totalRequests >= RateLimitConfig.requestsPerMinute
        /\ domainRecords[call[c].domain] = call[c].recentRecords

\* ---------------------------------------------------------------- C12
\* The waitForSlot calls of the shared domain that returned within the
\* last 60000 ms, as positions of served.
RecentlyServed ==
    {k \in DOMAIN served :
        /\ served[k].domain = SharedDomain
        /\ now - served[k].timestamp < Window}

\* C12: with several waitForSlot calls of one domain in flight at once,
\* at most requestsPerMinute calls return within any 60000 ms, and the
\* timestamp of every call that returned within the window is in the
\* domain's record list.
C12_BudgetHonoredWhenOverlapping ==
    /\ Cardinality(RecentlyServed) <= RateLimitConfig.requestsPerMinute
    /\ \A k \in RecentlyServed :
          \E j \in DOMAIN domainRecords[SharedDomain] :
             domainRecords[SharedDomain][j].timestamp = served[k].timestamp

\* ---------------------------------------------------------------- C13
Matching(patterns, pathname) ==
    {k \in DOMAIN patterns : MatchesPattern(pathname, patterns[k])}

\* C13: the decision of a rule set for a path is true if the path matches
\* any allow pattern (whether or not it matches a disallow pattern),
\* otherwise false if it matches any disallow pattern, otherwise true;
\* with Disallow /private and Allow /private/public the path
\* /private/public/doc is allowed and /private/doc is denied.
C13_AllowBeforeDisallow ==
    rout.op = "isAllowed" =>
        /\ Matching(rin.rule.allow, rin.pathname) # {}
              => rout.value = TRUE
        /\ (/\ Matching(rin.rule.allow, rin.pathname) = {}
            /\ Matching(rin.rule.disallow, rin.pathname) # {})
              => rout.value = FALSE
        /\ (/\ Matching(rin.rule.allow, rin.pathname) = {}
            /\ Matching(rin.rule.disallow, rin.pathname) = {})
              => rout.value = TRUE
        /\ (/\ rin.rule.disallow = << Private >>
            /\ rin.rule.allow = << PrivatePublic >>)
              => /\ rin.pathname = PrivatePublic \o << "/", "d", "o", "c" >>
                    => rout.value = TRUE
                 /\ rin.pathname = Private \o << "/", "d", "o", "c" >>
                    => rout.value = FALSE

\* A path that matches both an allow and a disallow pattern was allowed.
C13_Witness ==
    /\ rout.op = "isAllowed"
    /\ rin.rule.disallow = << Private >>
    /\ rin.rule.allow = << PrivatePublic >>
    /\ rin.pathname = PrivatePublic \o << "/", "d", "o", "c" >>
    /\ rout.value = TRUE

\* ---------------------------------------------------------------- C14
\* The matching the claim describes: "*" stands for any sequence, a "$"
\* that ends the pattern for the end of the path, and a pattern without
\* it matches every path it is a prefix of.
RECURSIVE ClaimedMatch(_, _)
ClaimedMatch(pattern, path) ==
    IF pattern = << >> THEN TRUE
    ELSE IF pattern = << "$" >> THEN path = << >>
    ELSE IF pattern[1] = "*"
    THEN \E k \in 0..Len(path) :
            ClaimedMatch(Tail(pattern), SubSeq(path, k + 1, Len(path)))
    ELSE /\ path # << >>
         /\ path[1] = pattern[1]
         /\ ClaimedMatch(Tail(pattern), Tail(path))

DollarOnlyLast(pattern) ==
    \A k \in DOMAIN pattern : pattern[k] = "$" => k = Len(pattern)

\* C14: a pattern ending in "$" matches only the paths that end where the
\* pattern ends (/a$ matches /a, not /ab or /a/b), "*" matches any
\* character sequence, and a pattern without "$" matches every path it is
\* a prefix of.
C14_PatternMatching ==
    (rout.op = "matchesPattern" /\ DollarOnlyLast(rin.pattern))
        => rout.value = ClaimedMatch(rin.pattern, rin.path)

\* ---------------------------------------------------------------- C15
\* A line of the text that gives the named directive a value.
IsDirective(line, key) == ToLowerCase(line.key) = key /\ line.value # << >>

\* The User-agent lines of the text that name agent a, whatever the case.
Declares(text, a) ==
    {k \in DOMAIN text :
        /\ IsDirective(text[k], UserAgentKey)
        /\ ToLowerCase(text[k].value) = ToLowerCase(a)}

Last(S) == CHOOSE k \in S : \A j \in S : j <= k

\* The lines that follow User-agent line k, up to the next User-agent line.
GroupOf(text, k) ==
    LET later == {j \in DOMAIN text : j > k /\ IsDirective(text[j], UserAgentKey)}
        end   == IF later = {} THEN Len(text) + 1
                 ELSE CHOOSE j \in later : \A m \in later : j <= m
    IN SubSeq(text, k + 1, end - 1)

RECURSIVE ValuesOf(_, _)
ValuesOf(group, key) ==
    IF group = << >> THEN << >>
    ELSE (IF IsDirective(group[1], key) THEN << group[1].value >> ELSE << >>)
         \o ValuesOf(Tail(group), key)

\* The lines of the rule set the claim selects for the agent: the group of
\* the agent's (last) User-agent line, else that of "*", else nothing.
SelectedGroup(text, agent) ==
    IF Declares(text, agent) # {} THEN GroupOf(text, Last(Declares(text, agent)))
    ELSE IF Declares(text, Star) # {} THEN GroupOf(text, Last(Declares(text, Star)))
    ELSE << >>

\* C15: isAllowed and getCrawlDelay use the rule set of the agent whose
\* name equals the given name case-insensitively if the text declares it,
\* else the rule set of "*" if declared, else an empty rule set that
\* allows every path; the rule set holds exactly the Allow and Disallow
\* values of the lines that follow that agent's User-agent line, in order.
C15_RuleSetSelection ==
    rout.op = "policy" =>
        LET group    == SelectedGroup(rin.content, rin.userAgent)
            allow    == ValuesOf(group, AllowKey)
            disallow == ValuesOf(group, DisallowKey)
            delays   == ValuesOf(group, CrawlDelayKey)
        IN /\ rout.rule.allow = allow
           /\ rout.rule.disallow = disallow
           /\ rout.allowed =
                (\/ Matching(allow, rin.url.pathname) # {}
                 \/ Matching(disallow, rin.url.pathname) = {})
           /\ rout.crawlDelay =
                (IF delays = << >> THEN 1 ELSE 5)
           /\ (Declares(rin.content, rin.userAgent) = {}
               /\ Declares(rin.content, Star) = {}) => rout.allowed

\* The text declares both "*" and the agent (in another case than asked
\* for), and the agent's own rule set denied the path.
C15_Witness ==
    /\ rout.op = "policy"
    /\ rin.userAgent = << "B", "O", "T" >>
    /\ Declares(rin.content, Star) # {}
    /\ Declares(rin.content, rin.userAgent) # {}
    /\ rout.rule.disallow = << << "/", "a" >> >>
    /\ ~rout.allowed

\* ---------------------------------------------------------------- C16
ScrapeEnds == attempt.pc # "idle" /\ attempt'.pc = "idle"

\* C16: every scrape call, whether the URL is disallowed, the response is
\* not a success, the fetch or the read of the body throws, or the call
\* succeeds, has appended exactly one log entry for its URL when it
\* returns or throws.
C16_OneEntryPerCall ==
    [][ScrapeEnds =>
          /\ attempt'.logged = 1
          /\ Len(logs') = Len(logs) + 1
          /\ logs'[Len(logs')].url = attempt.url
      ]_vars

\* ---------------------------------------------------------------- C17
Events == {attempt.events[k] : k \in DOMAIN attempt.events}

Denied == attempt.robots # "none" /\ ~attempt.allowed

\* C17: a scrape of a URL the policy denies appends an entry with
\* allowed = false and a reason and throws, without calling the rate
\* limiter (no request is recorded for the domain) and without fetching
\* the URL; a scrape of an allowed URL starts its fetch only after the
\* rate limiter's wait for the URL's hostname has returned.
C17_DeniedNeitherWaitsNorFetches ==
    [][/\ Denied => /\ "waitForSlot" \notin Events
                    /\ "fetch" \notin Events
                    /\ domainRecords' = domainRecords
       /\ (Denied /\ ScrapeEnds)
              => /\ logs' = Append(logs, logs'[Len(logs')])
                 /\ logs'[Len(logs')].url = attempt.url
                 /\ logs'[Len(logs')].allowed = FALSE
                 /\ logs'[Len(logs')].reason # NoReason
                 /\ attempt'.outcome = "threw"
       /\ (attempt.pc = "fetch" /\ attempt'.pc # "fetch")
              => /\ attempt.allowed
                 /\ attempt.events = << "checkRobotsTxt", "waitForSlot", "slot" >>
                 /\ call[SeqCaller].pc = "returned"
                 /\ call[SeqCaller].domain = attempt.url.hostname
                 /\ domainRecords[attempt.url.hostname] # << >>
      ]_vars

\* A first scrape was fetched after its wait, a second one was denied by
\* the parsed policy and threw.
C17_Witness ==
    /\ attempt.n = 2
    /\ attempt.outcome = "threw"
    /\ Denied
    /\ Len(logs) = 2
    /\ logs[1].allowed /\ logs[1].statusCode = 200
    /\ ~logs[2].allowed /\ logs[2].reason = BlockedReason

\* ---------------------------------------------------------------- C18
\* C18: while clearLogs is not called the audit log only grows at its
\* end: a step that changes it appends one entry, that of the current
\* scrape attempt, after the entries of all earlier attempts; and changing
\* the array getLogs returned leaves the log as it is.
C18_AppendOnly ==
    [][/\ (epoch' = epoch /\ logs' # logs)
              => /\ Len(logs') = Len(logs) + 1
                 /\ SubSeq(logs', 1, Len(logs)) = logs
                 /\ logs'[Len(logs')].n = attempt.n
                 /\ \A k \in DOMAIN logs : logs[k].n < attempt.n
       /\ returned' # returned => logs' = logs
       /\ (returned.none /\ ~returned'.none) => returned'.array = logs
      ]_vars

\* Two attempts are in the log, in order, and the caller has emptied the
\* array getLogs gave it.
C18_Witness ==
    /\ Len(logs) = 2
    /\ logs[1].n = 1 /\ logs[2].n = 2
    /\ ~returned.none
    /\ returned.array = << >>

\* ---------------------------------------------------------------- C19
\* C19: when the fetch of the policy document throws or its response is
\* not a success, checkRobotsTxt returns true whatever the path, and the
\* scrape goes on to the rate limiter's wait and to the fetch.
C19_UnfetchablePolicyAllows ==
    attempt.robots \in {"fetch_error", "not_ok"} =>
        /\ attempt.allowed
        /\ attempt.pc \in {"limiter", "sleeping", "fetch", "idle"}
        /\ attempt.pc = "sleeping" => attempt.events = << "checkRobotsTxt", "waitForSlot" >>
        /\ attempt.pc = "fetch"
              => attempt.events = << "checkRobotsTxt", "waitForSlot", "slot" >>
        /\ attempt.pc = "idle"
              => attempt.events = << "checkRobotsTxt", "waitForSlot", "slot", "fetch" >>

\* The policy document of the site (which disallows /a) could not be
\* fetched, and /a was fetched.
C19_Witness ==
    /\ attempt.robots = "fetch_error"
    /\ attempt.url.pathname = << "/", "a" >>
    /\ attempt.outcome = "returned"
    /\ "fetch" \in Events

FetchOrStoreFailed == run.thrown \in {"scrape", "store"}

C21_FinalStatus ==
    run.pc = "returned" =>
        /\ run.result.status \in {"success", "partial", "failed"}
        /\ run.result.status = "success" <=> run.result.errors = << >>
        /\ run.result.status = "partial" <=>
               /\ run.result.scrapedContentId # NoId
               /\ run.result.errors # << >>
        /\ run.result.status = "failed" <=> FetchOrStoreFailed

\* A run that persisted the raw content, lost every later stage and still
\* ended partial.
C21_Witness ==
    /\ run.pc = "returned"
    /\ run.result.status = "partial"
    /\ run.result.documentIds = << >>
    /\ run.result.regulationId = NoId
    /\ Len(run.result.errors) = 1 + run.chunks
    /\ run.chunks = MaxChunks


\* ---------------------------------------------------------------- C22
\* C22: if the fetch stage or the raw-content persistence stage fails,
\* runPipeline returns at once with status failed: the failing call is the
\* last call it made, so no extraction call, no embedding call and no
\* regulation or chunk insert follows; documentIds is empty and regulationId
\* is unset.
LaterStageCalls == {"processDocument", "insert regulations", "chunkText",
                    "generateEmbedding", "insert documents"}

CallsMade == {run.events[k].call : k \in 1..Len(run.events)}

C22_FatalStagesReturnAtOnce ==
    FetchOrStoreFailed =>
        /\ run.pc = "returned"
        /\ run.result.status = "failed"
        /\ CallsMade \cap LaterStageCalls = {}
        /\ run.events[Len(run.events)].call =
               IF run.thrown = "scrape" THEN "scrape" ELSE "insert scraped_content"
        /\ run.result.documentIds = << >>
        /\ run.result.regulationId = NoId

\* The fetch succeeded and the insert of the raw content failed.
C22_Witness ==
    /\ run.pc = "returned"
    /\ run.thrown = "store"
    /\ run.options.autoProcess /\ run.options.autoEmbed
    /\ CallsMade = {"scrape", "insert scraped_content"}
    /\ run.result.errors = << Error(StoreErrorMsg, NoChunk) >>


\* ---------------------------------------------------------------- C23
\* C23: if fetch and raw persistence succeed and structured extraction throws
\* (or the insert of its record fails), the run still executes the
\* chunk-and-embed stage it was asked for, regulationId stays unset, exactly
\* one error is recorded for the extraction stage, and the final status is
\* partial, with one error in total when every chunk succeeds.
ExtractionFailed == run.extraction \in {"extraction throws", "insert error"}

StageErrors(errors) == {k \in 1..Len(errors) : errors[k].chunk = NoChunk}

CallsOf(name) == {k \in 1..Len(run.events) : run.events[k].call = name}

EveryChunkSucceeded == \A k \in 1..Len(run.embedding) : run.embedding[k] = "ok"

C23_ExtractionFailureIsPartial ==
    (run.pc = "returned" /\ ExtractionFailed) =>
        /\ run.options.autoEmbed =>
               /\ Cardinality(CallsOf("chunkText")) = 1
               /\ Cardinality(CallsOf("generateEmbedding")) = run.chunks
        /\ run.result.scrapedContentId = ScrapedContentId
        /\ run.result.regulationId = NoId
        /\ StageErrors(run.result.errors) = {1}
        /\ run.result.status = "partial"
        /\ EveryChunkSucceeded => Len(run.result.errors) = 1

\* Extraction threw, and every chunk was then embedded and stored.
C23_Witness ==
    /\ run.pc = "returned"
    /\ run.extraction = "extraction throws"
    /\ run.chunks = MaxChunks
    /\ Len(run.result.documentIds) = MaxChunks
    /\ run.result.status = "partial"
    /\ Len(run.result.errors) = 1

\* ---------------------------------------------------------------- C24
\* C24: in the chunk-and-embed stage every chunk is attempted whatever
\* happened to the others: for n chunks the embedding is attempted for
\* 0..n-1 in index order, each failed chunk adds exactly one error, and the
\* returned chunk ids plus the chunk errors number n.
Attempts ==
    [k \in 1..Cardinality(CallsOf("generateEmbedding")) |->
        run.events[CHOOSE e \in CallsOf("generateEmbedding") :
            Cardinality({f \in CallsOf("generateEmbedding") : f < e}) = k - 1].chunk]

ChunkErrors(errors, c) == {k \in 1..Len(errors) : errors[k].chunk = c}

C24_EveryChunkAttempted ==
    (run.pc = "returned" /\ CallsOf("chunkText") # {}) =>
        /\ Attempts = [k \in 1..run.chunks |-> k - 1]
        /\ \A c \in 0..(run.chunks - 1) :
               /\ Cardinality(ChunkErrors(run.result.errors, c)) =
                      IF run.embedding[c + 1] = "ok" THEN 0 ELSE 1
               /\ Cardinality({d \in 1..Len(run.result.documentIds) :
                                  run.result.documentIds[d] = DocumentId(c)}) =
                      IF run.embedding[c + 1] = "ok" THEN 1 ELSE 0
        /\ Len(run.result.documentIds)
             + Cardinality(UNION {ChunkErrors(run.result.errors, c) :
                                     c \in 0..(run.chunks - 1)})
             = run.chunks

\* The first chunk failed and the last one was stored all the same.
C24_Witness ==
    /\ run.pc = "returned"
    /\ run.chunks = MaxChunks
    /\ run.embedding[1] = "embedding throws"
    /\ run.embedding[MaxChunks] = "ok"
    /\ run.result.documentIds = << DocumentId(MaxChunks - 1) >>


\* ---------------------------------------------------------------- C25
\* C25: for every text and every 0 <= overlap < maxChunkSize, each iteration
\* of the loop of chunkText moves the start offset strictly forward, also
\* when the last sentence terminator of the window lies at an offset smaller
\* than the overlap (so the loop terminates).
C25_StartMovesForward ==
    [][(chunking.pc = "loop" /\ chunking'.pc = "loop" /\ chunking' # chunking)
          => chunking'.start > chunking.start]_vars

\* ---------------------------------------------------------------- C26
\* C26: when chunkText has returned, every position of the text that holds a
\* character other than whitespace lies in the part of the text one of the
\* chunks was cut from, so that the chunks without their overlaps give the
\* text back.
Covered ==
    UNION {chunking.cuts[k][1]..(chunking.cuts[k][2] - 1) :
              k \in 1..Len(chunking.cuts)}

C26_TotalCoverage ==
    chunking.pc = "returned" =>
        \A p \in 0..(Len(chunking.text) - 1) :
            chunking.text[p + 1] \notin Whitespace => p \in Covered

\* ---------------------------------------------------------------- C27
\* C27: no chunk returned by chunkText is empty, whatever the text (the empty
\* text and whitespace-only texts included).
C27_NoEmptyChunk ==
    chunking.pc = "returned" =>
        \A k \in 1..Len(chunking.result) : Len(chunking.result[k]) > 0

\* A text of which one window was whitespace only: its chunk was pushed
\* empty and is not in the result, which holds the other chunks.
C27_Witness ==
    /\ chunking.pc = "returned"
    /\ \E k \in 1..Len(chunking.chunks) : chunking.chunks[k] = << >>
    /\ chunking.result # << >>
    /\ Len(chunking.result) < Len(chunking.chunks)


\* ---------------------------------------------------------------- C28
\* C28: in the result of hybridSearch each regulation identifier appears at
\* most once, and a regulation returned by both the semantic and the keyword
\* search appears exactly once, as the entry of its semantic result with that
\* result's similarity, never with the default of a keyword match.
PlacesOf(results, x) == {k \in 1..Len(results) : results[k].regulationId = x}

SemanticIds ==
    {query.semanticResults[k].regulationId :
        k \in 1..Len(query.semanticResults)} \ {NoValue}

KeywordIds ==
    {query.keywordResults[k].id : k \in 1..Len(query.keywordResults)}

C28_MergedOncePerRegulation ==
    query.pc = "returned" =>
        /\ \A x \in RegulationIds :
               Cardinality(PlacesOf(query.result, x)) <= 1
        /\ \A x \in SemanticIds \cap KeywordIds :
               /\ Cardinality(PlacesOf(query.result, x)) = 1
               /\ \A k \in PlacesOf(query.result, x) :
                      /\ \E j \in PlacesOf(query.semanticResults, x) :
                             query.result[k] = query.semanticResults[j]
                      /\ query.result[k].similarity # DefaultSimilarity

\* r1 came back from both searches, r2 from the keyword search only, and
\* both are in the result.
C28_Witness ==
    /\ query.pc = "returned"
    /\ "r1" \in SemanticIds \cap KeywordIds
    /\ "r2" \in KeywordIds \ SemanticIds
    /\ Len(query.result) = 2
    /\ query.result[1].regulationId = "r1"
    /\ query.result[2].regulationId = "r2"

\* ---------------------------------------------------------------- C29
\* C29: hybridSearch returns at most `limit` results in order of
\* non-increasing similarity; they are the top of the merged set (no merged
\* entry left out has a similarity strictly greater than a returned one), and
\* a regulation matched by the keyword search only carries similarity 0.5.
MergedIds == SemanticIds \cup KeywordIds

MergedSimilarity(x) ==
    IF x \in SemanticIds
    THEN LET at == PlacesOf(query.semanticResults, x)
         IN  query.semanticResults[CHOOSE k \in at : \A j \in at : j <= k].similarity
    ELSE DefaultSimilarity

ReturnedIds == {query.result[k].regulationId : k \in 1..Len(query.result)}

C29_TopOfMergedSet ==
    query.pc = "returned" =>
        /\ Len(query.result) <= query.limit
        /\ \A k \in 1..(Len(query.result) - 1) :
               query.result[k].similarity >= query.result[k + 1].similarity
        /\ ReturnedIds \subseteq MergedIds
        /\ Len(query.result) = Min(query.limit, Cardinality(MergedIds))
        /\ \A x \in MergedIds \ ReturnedIds : \A k \in 1..Len(query.result) :
               MergedSimilarity(x) <= query.result[k].similarity
        /\ \A k \in 1..Len(query.result) :
               query.result[k].regulationId \notin SemanticIds =>
                   query.result[k].similarity = DefaultSimilarity

\* Three regulations were merged and the limit is two: the semantic match
\* and one keyword match are returned, the other keyword match is left out.
C29_Witness ==
    /\ query.pc = "returned"
    /\ query.limit = 2
    /\ Cardinality(MergedIds) = 3
    /\ Len(query.result) = 2
    /\ query.result[1].similarity > DefaultSimilarity
    /\ query.result[2].similarity = DefaultSimilarity

\* ---------------------------------------------------------------- C30
\* C30: every result of hybridSearch, whether it came from the semantic or
\* from the keyword search, satisfies every filter that was supplied:
\* jurisdiction, category, priority and date range.
InList(list, value) == list # << >> => (value # NoValue /\ Includes(list, value))

InRange(dateRange, date) ==
    dateRange # NoRange =>
        /\ date # NoEffectiveDate
        /\ date >= dateRange.start
        /\ date <= dateRange.end

Satisfies(r, filters) ==
    /\ InList(filters.jurisdiction, r.jurisdiction)
    /\ InList(filters.category, r.category)
    /\ InList(filters.priority, r.priority)
    /\ InRange(filters.dateRange, r.effectiveDate)

C30_EveryResultSatisfiesFilters ==
    query.pc = "returned" =>
        \A k \in 1..Len(query.result) : Satisfies(query.result[k], query.filters)


\* ---------------------------------------------------------------- C31
\* C31: when the domain is under budget, the delay waitForSlot sleeps before
\* it records the request lies between the configured minDelay and the
\* configured maxDelay, both inclusive, for every configuration the
\* constructor accepts, a configured minimum of 0 included (a bound that is
\* not configured is the default one; configurations whose minimum exceeds
\* their maximum have no such delay and are left aside).
Configured(field) ==
    IF rin.config[field] = NotConfigured THEN DefaultConfig[field]
    ELSE rin.config[field]

C31_DelayWithinConfiguredRange ==
    (rout # NoOutput /\ rout.op = "waitForSlot"
        /\ rout.totalRequests < rout.config.requestsPerMinute
        /\ Configured("minDelay") <= Configured("maxDelay")) =>
        /\ Configured("minDelay") <= rout.sleep
        /\ rout.sleep <= Configured("maxDelay")


\* ---------------------------------------------------------------- C32
\* C32: search returns at most `limit` results, each satisfying every filter
\* that was supplied, in the order in which the store returned the matches;
\* a match whose regulation lacks a filtered attribute is not returned.
PositionOf(id) ==
    CHOOSE k \in 1..Len(query.documents) : query.documents[k].id = id

Supplied(filters) ==
    {f \in {"jurisdiction", "category", "priority"} : filters[f] # << >>}

C32_SearchFiltersAndTruncates ==
    query.pc \in {"searched", "returned"} =>
        /\ Len(query.semanticResults) <= query.limit
        /\ \A k \in 1..Len(query.semanticResults) :
               LET r == query.semanticResults[k] IN
               /\ Satisfies(r, query.filters)
               /\ \E d \in 1..Len(query.documents) : query.documents[d].id = r.id
               /\ \A f \in Supplied(query.filters) : r[f] # NoValue
               /\ query.filters.dateRange # NoRange =>
                      r.effectiveDate # NoEffectiveDate
        /\ \A j, k \in 1..Len(query.semanticResults) :
               j < k => PositionOf(query.semanticResults[j].id)
                          < PositionOf(query.semanticResults[k].id)

\* The store's first match belongs to a regulation without jurisdiction, a
\* jurisdiction filter is supplied, and the second match is the one returned.
C32_Witness ==
    /\ query.pc = "searched"
    /\ query.filters.jurisdiction # << >>
    /\ Len(query.documents) = 2
    /\ query.documents[1].regulation_id = "r3"
    /\ Len(query.semanticResults) = 1
    /\ query.semanticResults[1].id = query.documents[2].id


\* ---------------------------------------------------------------- C33
\* C33: the stages of a run are executed strictly in the order fetch, persist
\* raw, structured extraction, chunk-and-embed, so every chunk row the run
\* writes carries the regulation identifier the run returns as regulationId,
\* and none exactly when the run's regulationId is unset.
StageOf(name) ==
    CASE name = "scrape" -> 1
      [] name = "insert scraped_content" -> 2
      [] name \in {"processDocument", "insert regulations"} -> 3
      [] OTHER -> 4

C33_StagesInOrder ==
    /\ \A j, k \in 1..Len(run.events) :
           j < k => StageOf(run.events[j].call) <= StageOf(run.events[k].call)
    /\ \A k \in 1..Len(run.written) :
           run.written[k].regulation_id = run.regulationId
    /\ run.pc = "returned" =>
           \A k \in 1..Len(run.written) :
               run.written[k].regulation_id = run.result.regulationId

\* Extraction stored its record and every chunk row of the run carries its
\* identifier.
C33_Witness ==
    /\ run.pc = "returned"
    /\ run.result.regulationId = RegulationId
    /\ Len(run.written) = MaxChunks
    /\ \A k \in 1..Len(run.written) : run.written[k].regulation_id = RegulationId


\* ---------------------------------------------------------------- C35
\* C35: runPipeline never throws: whatever the fetch, the store, the
\* extraction service and the embedding service do, the run comes to its
\* return (each step it is in moves it on: the chunking of step 4 advances
\* its start offset at every iteration) and returns a PipelineResult, and a
\* result with status failed has a non-empty error list.
ReturnsAResult ==
    run.pc = "returned" =>
        /\ run.result.status \in {"success", "partial", "failed"}
        /\ run.result.status = "failed" => run.result.errors # << >>

ChunkingAdvances ==
    (run.pc = "chunking" /\ run'.pc = "chunking" /\ chunking' # chunking
        /\ chunking'.pc = "loop")
      => chunking'.start > chunking.start

C35_AlwaysReturnsAResult == []ReturnsAResult /\ [][ChunkingAdvances]_vars


\* ---------------------------------------------------------------- C34
\* C34: with a single worker draining the queue sequentially, every job is
\* executed at most max_retries + 1 times in total; completed is as terminal
\* as failed (a completed job is never selected or modified again); and a job
\* that is due is executed again, so that a job whose executions all fail
\* reaches failed after finitely many of them when time passes each backoff.
Executions(k) ==
    fails[k] + (IF jobs[k].status = "completed" THEN 1 ELSE 0)

ExecutionsBounded ==
    \A k \in DOMAIN jobs :
        /\ Executions(k) <= jobs[k].max_retries + 1
        /\ jobs[k].status = "failed" <=> fails[k] = jobs[k].max_retries + 1

CompletedIsTerminal ==
    \A k \in DOMAIN jobs :
        jobs[k].status = "completed" =>
            /\ jobs'[k] = jobs[k]
            /\ fails'[k] = fails[k]
            /\ job'[SeqWorker].id # k

Due(k, r) ==
    /\ k \in DOMAIN jobs
    /\ jobs[k].status = "pending"
    /\ jobs[k].retry_count = r
    /\ jobs[k].scheduled_at <= now

ExecutedAfter(k, r) ==
    /\ k \in DOMAIN jobs
    /\ \/ jobs[k].status \in {"completed", "failed"}
       \/ jobs[k].status = "pending" /\ jobs[k].retry_count = r + 1

C34_SingleWorkerLifecycle ==
    /\ []ExecutionsBounded
    /\ [][CompletedIsTerminal]_vars
    /\ \A k \in 1..MaxJobs : \A r \in 0..MaxRetries :
           Due(k, r) ~> ExecutedAfter(k, r)

\* A job that failed max_retries times and completed at its last execution.
C34_Witness ==
    \E k \in DOMAIN jobs :
        /\ jobs[k].status = "completed"
        /\ fails[k] = jobs[k].max_retries
        /\ jobs[k].retry_count = jobs[k].max_retries


\* ---------------------------------------------------------------- C36
\* C36: a semantic result whose chunk has no structured-record identifier
\* never appears in hybridSearch's result, so hybridSearch can return fewer
\* results than search returned for the same query, filters and limit.
Unlinked(results) ==
    {results[k].id : k \in {j \in 1..Len(results) :
                                results[j].regulationId = NoValue}}

C36_UnlinkedChunksDropped ==
    query.pc = "returned" =>
        \A k \in 1..Len(query.result) :
            /\ query.result[k].regulationId # NoValue
            /\ query.result[k].id \notin Unlinked(query.semanticResults)

\* search returned two chunks, one of them of no regulation, and the hybrid
\* result is the shorter list.
C36_Witness ==
    /\ query.pc = "returned"
    /\ Unlinked(query.semanticResults) # {}
    /\ Len(query.semanticResults) = query.limit
    /\ Len(query.result) < Len(query.semanticResults)


\* ---------------------------------------------------------------- C37
\* C37: when several semantic results (chunks) reference the same regulation,
\* the one entry hybridSearch keeps for that regulation is the last of them in
\* the order of the semantic results, with that chunk's similarity.
LastPlaceOf(results, x) ==
    CHOOSE k \in PlacesOf(results, x) : \A j \in PlacesOf(results, x) : j <= k

C37_LastChunkOfARegulationWins ==
    query.pc = "returned" =>
        \A k \in 1..Len(query.result) :
            LET x == query.result[k].regulationId
            IN  x \in SemanticIds =>
                    query.result[k] =
                        query.semanticResults[
                            LastPlaceOf(query.semanticResults, x)]

\* Two chunks of one regulation, the second with the lower similarity, and
\* the result holds the second.
C37_Witness ==
    /\ query.pc = "returned"
    /\ Len(query.semanticResults) = 2
    /\ query.semanticResults[1].regulationId = query.semanticResults[2].regulationId
    /\ query.semanticResults[2].similarity < query.semanticResults[1].similarity
    /\ query.result = << query.semanticResults[2] >>


\* ---------------------------------------------------------------- C38
\* C38: the fetch of a domain's crawl-policy document inside scrape does not
\* pass through the rate limiter: it records no request for the domain and
\* waits for nothing.  The document is fetched again by every scrape of a
\* domain as long as no fetch of it has succeeded, and once one has, the
\* parsed rules are kept and every later scrape of the domain reuses them.
ChecksRobots == attempt.pc = "robots" /\ attempt'.pc # "robots"

PolicyOf(d) == robotsTxtCache[d]

RobotsCheckStep ==
    ChecksRobots =>
        LET d == attempt.url.hostname IN
        /\ UNCHANGED << now, limiterVars >>
        /\ PolicyOf(d) = NoParser =>
               /\ attempt'.robots \in {"fetch_error", "not_ok", "parse_error",
                                       "parsed"}
               /\ attempt'.robots = "parsed" <=> PolicyOf(d)' # NoParser
        /\ PolicyOf(d) # NoParser =>
               /\ attempt'.robots = "cached"
               /\ attempt'.allowed =
                      IsAllowed(PolicyOf(d), attempt.url, ScraperUserAgent)

PolicyKept ==
    \A d \in Domains : PolicyOf(d) # NoParser => PolicyOf(d)' = PolicyOf(d)

C38_RobotsFetchOutsideTheLimiter ==
    [][RobotsCheckStep /\ PolicyKept]_vars

\* The second scrape of the domain has reused the rules the first one
\* fetched, and the only request recorded is the first scrape's own.
C38_Witness ==
    /\ attempt.n = 2
    /\ attempt.pc = "limiter"
    /\ attempt.robots = "cached"
    /\ Len(domainRecords[attempt.url.hostname]) = 1


\* ---------------------------------------------------------------- C39
\* C39: every chunk chunkText returns has at most maxChunkSize characters and
\* is a contiguous substring of the text without whitespace at either end,
\* and the chunks are returned in increasing order of their start offset.
Kept == {k \in 1..Len(chunking.chunks) : Len(chunking.chunks[k]) > 0}

\* The offset in the text of the window the k-th chunk pushed was cut from,
\* and the offset at which the chunk begins once trim has dropped the
\* whitespace the window begins with.
StartOffset(k) == chunking.cuts[k][1]

LeadingWhitespace(text) ==
    Cardinality({k \in 1..Len(text) :
                    \A j \in 1..k : text[j] \in Whitespace})

TrimmedOffset(k) ==
    StartOffset(k)
        + LeadingWhitespace(Slice(chunking.text, chunking.cuts[k][1],
                                  chunking.cuts[k][2]))

IsTrimmedSubstring(chunk, text) ==
    /\ \E a \in 1..Len(text) : \E b \in a..Len(text) : SubSeq(text, a, b) = chunk
    /\ chunk[1] \notin Whitespace
    /\ chunk[Len(chunk)] \notin Whitespace

ChunksWellFormed ==
    chunking.pc = "returned" =>
        /\ Len(chunking.result) = Cardinality(Kept)
        /\ \A k \in 1..Len(chunking.result) :
               /\ Len(chunking.result[k]) <= chunking.maxChunkSize
               /\ IsTrimmedSubstring(chunking.result[k], chunking.text)

ChunksInOrder ==
    chunking.pc = "returned" =>
        \A j \in Kept : \A k \in Kept :
            j < k => /\ StartOffset(j) < StartOffset(k)
                     /\ TrimmedOffset(j) <= TrimmedOffset(k)

C39_ChunksBoundedTrimmedOrdered == ChunksWellFormed /\ ChunksInOrder


\* Two chunks are returned, the first as long as maxChunkSize allows, and
\* one of them was cut from a window that begins with whitespace.
C39_Witness ==
    /\ chunking.pc = "returned"
    /\ Len(chunking.result) = 2
    /\ Len(chunking.result[1]) = chunking.maxChunkSize
    /\ \E k \in Kept : TrimmedOffset(k) > StartOffset(k)


\* ---------------------------------------------------------------- C40
\* C40: a waitForSlot(d) that returns changes the record list of d only: it
\* drops the entries of d that were 60 s old when the call read the clock and
\* appends exactly one entry, and the lists of the other domains stay as they
\* are; getRequestCount changes nothing and returns the number of requests
\* of d recorded in the last 60000 ms.
WithinWindow(records, t) ==
    {k \in 1..Len(records) : t - records[k].timestamp < Window}

PurgedAndOneAppended(before, after, entered) ==
    /\ Len(after) = Cardinality(WithinWindow(before, entered)) + 1
    /\ after[Len(after)] = [timestamp |-> now', count |-> 1]
    /\ SubSeq(after, 1, Len(after) - 1) =
           SelectSeq(before, LAMBDA r : entered - r.timestamp < Window)

WaitForSlotFrame ==
    \A c \in Callers :
        Returns(c) =>
            /\ PurgedAndOneAppended(domainRecords[call[c].domain],
                                    domainRecords'[call[c].domain],
                                    call[c].now)
            /\ \A e \in Domains \ {call[c].domain} :
                   domainRecords'[e] = domainRecords[e]

GetRequestCountFrame ==
    rout' # rout =>
        /\ UNCHANGED << now, limiterVars >>
        /\ rout'.value =
               Cardinality(WithinWindow(domainRecords[rout'.domain], now))

C40_WaitForSlotFrame ==
    [][WaitForSlotFrame /\ GetRequestCountFrame]_vars

====
